---- MODULE Spec2Model ----
(***************************************************************************)
(* Model of the photo vault server (server/index.js): the credential      *)
(* store, the token service, the realm cache and the request handlers.    *)
(* Strings are sequences of one-character strings, so that trimming,      *)
(* case folding, id normalisation, base64url and the payload split are    *)
(* computed as the code computes them.                                     *)
(***************************************************************************)
EXTENDS Integers, Sequences, FiniteSets, Bags, TLC

VARIABLES
    phase,           \* "boot" | "loaded" | "serving" | "down": module load, app.listen
    legacyFile,      \* content of data/users.json (legacyUsersFilePath)
    users,           \* rows of the users table, in rowid (insertion) order
    storesByUserId,  \* keys of the realm cache Map
    now,             \* Date.now()
    tokens,          \* bearer tokens handed to clients by login, with the user logged in
    res,             \* the last request and its response
    probe,           \* token service under test: one issued token, possibly tampered
    provisioned,     \* user ids createStoreForUser was called with, in call order
    photos,          \* rows of the photos table of one realm, in rowid order
    uploadsDir,      \* files of that realm's uploads directory
    upload,          \* the POST /api/photos request in flight on that realm
    out,             \* the last photo request on that realm and its response
    recon,           \* the startup media migration of that realm
    fresh,           \* number of random values (randomUUID, Math.random) drawn so far
    library,         \* state of the usePhotoLibrary hook of one browser tab
    pinchGrid        \* state of the usePinchGrid hook of that tab

realmVars == <<photos, uploadsDir, upload, out, recon, fresh>>

vars == <<phase, legacyFile, users, storesByUserId, now, tokens, res, probe,
          provisioned, photos, uploadsDir, upload, out, recon, fresh, library, pinchGrid>>

----------------------------------------------------------------------------
(* Bounds of the model *)

MaxUsers == 3
MaxNow == 3
MaxTokens == 1
MaxPhotos == 2
MaxBatch == 2
MaxRuns == 2
MaxLegacy == 4
MaxInflight == 3

(* Program constants *)

\* TOKEN_TTL_MS = Number(process.env.TOKEN_TTL_MS || ...): the configured TTL, in clock ticks
TOKEN_TTL_MS == 2
\* bytes of an HMAC-SHA256 digest
DIGEST_BYTES == 32
\* the key material of AUTH_SECRET, as one number mixed into every digest
AUTH_SECRET == 41
\* scryptSync(password, saltHex, 64)
SCRYPT_KEYLEN == 64

----------------------------------------------------------------------------
(* Characters and strings *)

UPPER == <<"A","B","C","D","E","F","G","H","I","J","K","L","M",
           "N","O","P","Q","R","S","T","U","V","W","X","Y","Z">>
LOWER == <<"a","b","c","d","e","f","g","h","i","j","k","l","m",
           "n","o","p","q","r","s","t","u","v","w","x","y","z">>
DIGITS == <<"0","1","2","3","4","5","6","7","8","9">>

\* the printable ASCII characters, code 32 (space) to 126; "<bq>" stands for the
\* backquote (code 96)
PRINTABLE ==
    <<" ","!","\"","#","$","%","&","'","(",")","*","+",",","-",".","/">>
    \o DIGITS \o <<":",";","<","=",">","?","@">> \o UPPER
    \o <<"[","\\","]","^","_","<bq>">> \o LOWER \o <<"{","|","}","~">>

Range(s) == { s[i] : i \in 1..Len(s) }

IndexOf(c, s) == CHOOSE i \in 1..Len(s) : s[i] = c

OrdTable == [ c \in Range(PRINTABLE) |-> 31 + IndexOf(c, PRINTABLE) ]

\* charCodeAt / the UTF-8 byte of an ASCII character
Ord(c) == OrdTable[c]

\* Buffer.toString("utf8") of one byte; bytes outside printable ASCII are not letters
Chr(b) == IF b >= 32 /\ b <= 126 THEN PRINTABLE[b - 31] ELSE "<?>"

StrBytes(s) == [ i \in 1..Len(s) |-> Ord(s[i]) ]
BytesStr(b) == [ i \in 1..Len(b) |-> Chr(b[i]) ]

IsSpace(c) == c = " "

RECURSIVE TrimStart(_)
TrimStart(s) ==
    IF s # <<>> /\ IsSpace(Head(s)) THEN TrimStart(Tail(s)) ELSE s

RECURSIVE TrimEnd(_)
TrimEnd(s) ==
    IF s # <<>> /\ IsSpace(s[Len(s)]) THEN TrimEnd(SubSeq(s, 1, Len(s) - 1)) ELSE s

\* String.prototype.trim
Trim(s) == TrimEnd(TrimStart(s))

LowerTable ==
    [ c \in Range(PRINTABLE) |-> IF c \in Range(UPPER) THEN LOWER[IndexOf(c, UPPER)] ELSE c ]

LowerChar(c) == LowerTable[c]

\* String.prototype.toLowerCase, and SQL lower(), on ASCII text
ToLowerCase(s) == [ i \in 1..Len(s) |-> LowerChar(s[i]) ]

\* the class [a-z0-9._-]
IdChars == Range(LOWER) \cup Range(DIGITS) \cup {".", "_", "-"}

IsIdChar(c) == c \in IdChars

\* .replace(/[^a-z0-9._-]/g, "-")
ReplaceNonId(s) == [ i \in 1..Len(s) |-> IF IsIdChar(s[i]) THEN s[i] ELSE "-" ]

\* .replace(/-+/g, "-")
RECURSIVE CollapseDashes(_)
CollapseDashes(s) ==
    IF Len(s) < 2 THEN s
    ELSE IF s[1] = "-" /\ s[2] = "-" THEN CollapseDashes(Tail(s))
    ELSE <<s[1]>> \o CollapseDashes(Tail(s))

\* .replace(/^-|-$/g, ""): one leading and one trailing dash
StripEdgeDash(s) ==
    LET a == IF s # <<>> /\ Head(s) = "-" THEN Tail(s) ELSE s
    IN  IF a # <<>> /\ a[Len(a)] = "-" THEN SubSeq(a, 1, Len(a) - 1) ELSE a

\* a normalisation that lowers and trims only
normalizeUserIdLower(value) == ToLowerCase(Trim(value))

normalizeUserId(value) ==
    LET n == StripEdgeDash(CollapseDashes(ReplaceNonId(ToLowerCase(Trim(value)))))
    IN  IF n = <<>> THEN <<"u","s","e","r">> ELSE n

\* String(n) of a non-negative integer
RECURSIVE NumberToString(_)
NumberToString(n) ==
    IF n < 10 THEN <<DIGITS[n + 1]>>
    ELSE NumberToString(n \div 10) \o <<DIGITS[(n % 10) + 1]>>

RECURSIVE DigitsValue(_)
DigitsValue(s) ==
    IF s = <<>> THEN 0
    ELSE 10 * DigitsValue(SubSeq(s, 1, Len(s) - 1)) + (IndexOf(s[Len(s)], DIGITS) - 1)

DigitChars == Range(DIGITS)

AllDigits(s) == \A i \in 1..Len(s) : s[i] \in DigitChars

\* Number(text) on text without "." or letters: {} stands for NaN.
\* Number("") is 0; an optional sign may precede the digits.
Number(s) ==
    IF s = <<>> THEN {0}
    ELSE IF AllDigits(s) THEN {DigitsValue(s)}
    ELSE IF Len(s) > 1 /\ s[1] = "-" /\ AllDigits(Tail(s)) THEN {0 - DigitsValue(Tail(s))}
    ELSE IF Len(s) > 1 /\ s[1] = "+" /\ AllDigits(Tail(s)) THEN {DigitsValue(Tail(s))}
    ELSE {}

\* String.prototype.split on a one-character separator
RECURSIVE Split(_, _)
Split(s, sep) ==
    IF \A i \in 1..Len(s) : s[i] # sep THEN <<s>>
    ELSE LET k == CHOOSE i \in 1..Len(s) : s[i] = sep /\ \A j \in 1..(i - 1) : s[j] # sep
         IN  <<SubSeq(s, 1, k - 1)>> \o Split(SubSeq(s, k + 1, Len(s)), sep)

----------------------------------------------------------------------------
(* base64 and base64url *)

B64STD == UPPER \o LOWER \o DIGITS \o <<"+", "/">>

\* Buffer.toString("base64"): standard alphabet, groups of 3 bytes give 4
\* characters, a last group of 1 or 2 bytes is padded with "="
ToBase64(b) ==
    LET n == Len(b)
        Byte(k) == IF k <= n THEN b[k] ELSE 0
        CharAt(k) ==
            LET g == 3 * ((k - 1) \div 4)
                j == (k - 1) % 4
            IN  IF j = 0 THEN B64STD[(Byte(g + 1) \div 4) + 1]
                ELSE IF j = 1 THEN B64STD[((Byte(g + 1) % 4) * 16 + (Byte(g + 2) \div 16)) + 1]
                ELSE IF j = 2 THEN
                    IF g + 2 > n THEN "="
                    ELSE B64STD[((Byte(g + 2) % 16) * 4 + (Byte(g + 3) \div 64)) + 1]
                ELSE IF g + 3 > n THEN "=" ELSE B64STD[(Byte(g + 3) % 64) + 1]
    IN  [ k \in 1..(4 * ((n + 2) \div 3)) |-> CharAt(k) ]

ReplaceChar(s, from, to) == [ i \in 1..Len(s) |-> IF s[i] = from THEN to ELSE s[i] ]

RECURSIVE StripTrailing(_, _)
StripTrailing(s, c) ==
    IF s # <<>> /\ s[Len(s)] = c THEN StripTrailing(SubSeq(s, 1, Len(s) - 1), c) ELSE s

bufferToBase64Url(value) ==
    StripTrailing(ReplaceChar(ReplaceChar(ToBase64(value), "+", "-"), "/", "_"), "=")

SextetTable ==
    [ c \in Range(B64STD) \cup {"-", "_"} |->
        IF c = "-" THEN 62 ELSE IF c = "_" THEN 63 ELSE IndexOf(c, B64STD) - 1 ]

\* the decoder's table: both alphabets are accepted, "-" as "+" and "_" as "/"
IsB64Char(c) == c \in DOMAIN SextetTable
Sextet(c) == SextetTable[c]

\* the characters the decoder reads: it stops at the first "=" and skips
\* every character outside its table
B64Sextets(s) ==
    LET stop == IF "=" \in Range(s)
                THEN CHOOSE i \in 1..Len(s) : s[i] = "=" /\ \A j \in 1..(i - 1) : s[j] # "="
                ELSE Len(s) + 1
        read == SelectSeq(SubSeq(s, 1, stop - 1), IsB64Char)
    IN  [ i \in 1..Len(read) |-> Sextet(read[i]) ]

\* 4 characters give 3 bytes; a last group of 2 or 3 characters gives 1 or 2
\* bytes and its low bits are dropped; a last single character gives nothing
SextetsToBytes(x) ==
    LET ByteAt(i) ==
            LET g == 4 * ((i - 1) \div 3)
                j == (i - 1) % 3
            IN  IF j = 0 THEN x[g + 1] * 4 + (x[g + 2] \div 16)
                ELSE IF j = 1 THEN (x[g + 2] % 16) * 16 + (x[g + 3] \div 4)
                ELSE (x[g + 3] % 4) * 64 + x[g + 4]
    IN  [ i \in 1..((Len(x) * 6) \div 8) |-> ByteAt(i) ]

\* Buffer.from(text, "base64")
BufferFromBase64(s) == SextetsToBytes(B64Sextets(s))

Repeat(c, n) == [ i \in 1..n |-> c ]

base64UrlToBuffer(value) ==
    LET normalized == ReplaceChar(ReplaceChar(value, "-", "+"), "_", "/")
        padded == normalized \o Repeat("=", (4 - (Len(normalized) % 4)) % 4)
    IN  BufferFromBase64(padded)

----------------------------------------------------------------------------
(* Request inputs *)

DEFAULT_USER_ID == <<"a","d","m","i","n">>
DEFAULT_USER_PASSWORD == <<"a","d","m","i","n","1","2","3">>

\* req.body.loginId: <<>> is a missing (or non-string) field
LoginIds ==
    { <<>>,
      <<" ","a","b"," ">>,
      <<"A","d","m","i","n">>,
      <<"a","d","m","i","n">>,
      <<"a","d","m","i","n","!","!">>,
      <<"a","d","m","i","n","-","2">>,
      <<"a","b",".","9">> }

\* req.body.password: <<>> is a missing (or non-string) field
Passwords ==
    { <<>>,
      <<"1","2","3","4","5">>,
      DEFAULT_USER_PASSWORD,
      <<"s","e","c","r","e","t">> }

\* randomBytes(16).toString("hex"), shortened
SaltValues == { <<"0","f">> }

\* the salt of the entries of the legacy list
LegacySalt == <<"b","1">>

\* randomUUID(), shortened
UuidValues == { <<"7","c">> }

\* the operations behind requireAuth that act on the caller's realm
PhotoOps == { "list", "upload", "delete", "download", "asset" }

----------------------------------------------------------------------------
(* Keyed digest and password hashing.  HMAC-SHA256 and scrypt are library  *)
(* functions: each is modelled as a deterministic function of its inputs   *)
(* with the library's output length.                                       *)

RECURSIVE WeightedSum(_, _, _)
\* the sum of (w + k) * b[k] over the bytes from position k on
WeightedSum(b, w, k) ==
    IF k > Len(b) THEN 0 ELSE (w + k) * b[k] + WeightedSum(b, w, k + 1)

SumBytes(b) == WeightedSum(b, 1, 1) - WeightedSum(b, 0, 1)

Mix(b, key, n) ==
    LET s0 == SumBytes(b)
        s1 == WeightedSum(b, 0, 1)
    IN  [ i \in 1..n |-> (key * i + i * i * s0 + (i + 2) * s1 + Len(b)) % 256 ]

signValue(value) == Mix(StrBytes(value), AUTH_SECRET, DIGEST_BYTES)

HEXDIGITS == DIGITS \o <<"a","b","c","d","e","f">>

\* Buffer.toString("hex")
ToHex(b) ==
    [ k \in 1..(2 * Len(b)) |->
        IF k % 2 = 1 THEN HEXDIGITS[(b[(k + 1) \div 2] \div 16) + 1]
        ELSE HEXDIGITS[(b[k \div 2] % 16) + 1] ]

HexTable == [ c \in Range(HEXDIGITS) |-> IndexOf(c, HEXDIGITS) - 1 ]

IsHexChar(c) == LowerChar(c) \in DOMAIN HexTable
HexVal(c) == HexTable[LowerChar(c)]

\* Buffer.from(text, "hex"): decoding stops at the first pair that is not hex
BufferFromHex(s) ==
    LET pairs == Len(s) \div 2
        Bad(k) == ~IsHexChar(s[2 * k - 1]) \/ ~IsHexChar(s[2 * k])
        n == IF \E k \in 1..pairs : Bad(k)
             THEN (CHOOSE k \in 1..pairs : Bad(k) /\ \A j \in 1..(k - 1) : ~Bad(j)) - 1
             ELSE pairs
    IN  [ k \in 1..n |-> HexVal(s[2 * k - 1]) * 16 + HexVal(s[2 * k]) ]

\* scryptSync(password, saltHex, 64).toString("hex")
scryptSync(password, saltHex, keylen) ==
    ToHex(Mix(StrBytes(password) \o <<0>> \o StrBytes(saltHex),
              SumBytes(StrBytes(saltHex)), keylen))

\* the hashes of the modelled passwords and salts, computed once
ScryptTable ==
    [ x \in Passwords \X (SaltValues \cup {LegacySalt}) |->
        scryptSync(x[1], x[2], SCRYPT_KEYLEN) ]

hashPassword(password, saltHex) ==
    [ saltHex |-> saltHex,
      hashHex |-> IF <<password, saltHex>> \in DOMAIN ScryptTable
                  THEN ScryptTable[<<password, saltHex>>]
                  ELSE scryptSync(password, saltHex, SCRYPT_KEYLEN) ]

timingSafeEqual(left, right) == left = right

safeCompareHex(leftHex, rightHex) ==
    LET left == BufferFromHex(leftHex)
        right == BufferFromHex(rightHex)
    IN  IF Len(left) # Len(right) THEN FALSE ELSE timingSafeEqual(left, right)

----------------------------------------------------------------------------
(* Token service *)

issueToken(userId, t, uuid) ==
    LET expiresAt == t + TOKEN_TTL_MS
        payload == userId \o <<".">> \o NumberToString(expiresAt) \o <<".">> \o uuid
        payloadB64 == bufferToBase64Url(StrBytes(payload))
        signatureB64 == bufferToBase64Url(signValue(payload))
    IN  payloadB64 \o <<".">> \o signatureB64

\* {} is null, otherwise the one parsed result
verifyToken(token, t) ==
    IF token = <<>> \/ "." \notin Range(token) THEN {}
    ELSE LET parts == Split(token, ".")
             payloadB64 == parts[1]
             signatureB64 == parts[2]
         IN  IF payloadB64 = <<>> \/ signatureB64 = <<>> THEN {}
             ELSE LET payload == BytesStr(base64UrlToBuffer(payloadB64))
                      receivedSig == base64UrlToBuffer(signatureB64)
                      expectedSig == signValue(payload)
                  IN  IF Len(receivedSig) # Len(expectedSig)
                         \/ ~timingSafeEqual(receivedSig, expectedSig) THEN {}
                      ELSE LET fields == Split(payload, ".")
                               userId == fields[1]
                               expiresAt == IF Len(fields) < 2 THEN {} ELSE Number(fields[2])
                           IN  IF userId = <<>> \/ expiresAt = {}
                                  \/ (\E e \in expiresAt : t > e) THEN {}
                               ELSE { [userId |-> userId, expiresAt |-> e] : e \in expiresAt }

----------------------------------------------------------------------------
(* Legacy user list (data/users.json) *)

LegacyEntry(id, username, salt, hash, createdAt) ==
    [ id |-> id, username |-> username, passwordSalt |-> salt,
      passwordHash |-> hash, createdAt |-> createdAt ]

\* a list with a well-formed entry, an entry without a hash and a duplicate id
LegacyList ==
    << LegacyEntry(<<"B","o","b">>, <<" ","b","o","b">>, LegacySalt,
                   hashPassword(<<"s","e","c","r","e","t">>, LegacySalt).hashHex, 0),
       LegacyEntry(<<"e","v","e">>, <<"e","v","e">>, LegacySalt, <<>>, 0),
       LegacyEntry(<<"b","o","b">>, <<"b","o","b","b","y">>, LegacySalt,
                   hashPassword(<<"s","e","c","r","e","t">>, LegacySalt).hashHex, 0) >>

\* kind: "absent" (no file), "syntax" (JSON.parse throws), "object" (parsed, not an
\* array), "array"
LegacyFiles ==
    { [kind |-> "absent", entries |-> <<>>],
      [kind |-> "syntax", entries |-> <<>>],
      [kind |-> "object", entries |-> <<>>],
      [kind |-> "array", entries |-> LegacyList] }

----------------------------------------------------------------------------
(* Credential store *)

UserRow(id, username, salt, hash, createdAt) ==
    [ id |-> id, username |-> username, password_salt |-> salt,
      password_hash |-> hash, created_at |-> createdAt ]

countUsers(us) == Len(us)

\* the first row (rowid order) that satisfies the WHERE clause; {} when none does
FirstRow(us, P(_)) ==
    IF \E i \in 1..Len(us) : P(us[i])
    THEN { us[CHOOSE i \in 1..Len(us) : P(us[i]) /\ \A j \in 1..(i - 1) : ~P(us[j])] }
    ELSE {}

findUserByLoginStmt(us, a, b) ==
    LET Match(r) == ToLowerCase(r.username) = ToLowerCase(a) \/ ToLowerCase(r.id) = ToLowerCase(b)
    IN  FirstRow(us, Match)

findUserByIdStmt(us, id) ==
    LET Match(r) == r.id = id
    IN  FirstRow(us, Match)

\* a lookup that compares the username as written
findUserByUsernameExact(us, name) ==
    LET Match(r) == r.username = name
    IN  FirstRow(us, Match)

findUserByUsernameStmt(us, name) ==
    LET Match(r) == ToLowerCase(r.username) = ToLowerCase(name)
    IN  FirstRow(us, Match)

\* id TEXT PRIMARY KEY, username TEXT UNIQUE NOT NULL: the insert throws on a row
\* with the same id or the same username
InsertThrows(us, row) ==
    \E i \in 1..Len(us) : us[i].id = row.id \/ us[i].username = row.username

insertUserStmt(us, row) == Append(us, row)

findUserByLogin(us, login) == findUserByLoginStmt(us, login, login)

\* an import that gives up at the first entry it cannot insert
MigrateEntriesUntilFailure(us, entries, t) ==
    LET WellFormed(e) == e.id # <<>> /\ e.username # <<>> /\ e.passwordSalt # <<>>
                         /\ e.passwordHash # <<>>
        Row(e) == [ id |-> normalizeUserId(e.id), username |-> Trim(e.username),
                    password_salt |-> e.passwordSalt, password_hash |-> e.passwordHash,
                    created_at |-> IF e.createdAt = 0 THEN t ELSE e.createdAt ]
        Fits(i) == /\ WellFormed(entries[i])
                   /\ \A j \in 1..(i - 1) : /\ Row(entries[j]).id # Row(entries[i]).id
                                            /\ Row(entries[j]).username # Row(entries[i]).username
        n == IF \A i \in 1..Len(entries) : Fits(i) THEN Len(entries)
             ELSE (CHOOSE i \in 1..Len(entries) : ~Fits(i) /\ \A j \in 1..(i - 1) : Fits(j)) - 1
    IN  us \o [ i \in 1..n |-> Row(entries[i]) ]

RECURSIVE MigrateEntries(_, _, _)
MigrateEntries(us, entries, t) ==
    IF entries = <<>> THEN us
    ELSE LET user == Head(entries)
             row == UserRow(normalizeUserId(user.id), Trim(user.username),
                            user.passwordSalt, user.passwordHash,
                            IF user.createdAt = 0 THEN t ELSE user.createdAt)
         IN  IF user.id = <<>> \/ user.username = <<>> \/ user.passwordSalt = <<>>
                \/ user.passwordHash = <<>>
             THEN MigrateEntries(us, Tail(entries), t)
             ELSE IF InsertThrows(us, row) THEN MigrateEntries(us, Tail(entries), t)
             ELSE MigrateEntries(insertUserStmt(us, row), Tail(entries), t)

migrateLegacyUsersIfNeeded(us, file, t) ==
    IF countUsers(us) > 0 \/ file.kind = "absent" THEN us
    ELSE IF file.kind # "array" THEN us
    ELSE MigrateEntries(us, file.entries, t)

\* a provisioning that looks for the default id instead of counting the users
ensureDefaultUserById(us, t, salt) ==
    IF \E i \in 1..Len(us) : us[i].id = normalizeUserId(DEFAULT_USER_ID) THEN us
    ELSE Append(us, [ id |-> normalizeUserId(DEFAULT_USER_ID), username |-> DEFAULT_USER_ID,
                      password_salt |-> hashPassword(DEFAULT_USER_PASSWORD, salt).saltHex,
                      password_hash |-> hashPassword(DEFAULT_USER_PASSWORD, salt).hashHex,
                      created_at |-> t ])

ensureDefaultUser(us, t, salt) ==
    IF countUsers(us) > 0 THEN us
    ELSE LET h == hashPassword(DEFAULT_USER_PASSWORD, salt)
         IN  insertUserStmt(us, UserRow(normalizeUserId(DEFAULT_USER_ID), DEFAULT_USER_ID,
                                        h.saltHex, h.hashHex, t))

RECURSIVE FreeUserIdSkipsTwo(_, _, _, _)
\* a loop that increments the suffix before it uses it: base, base-3, base-4, ...
FreeUserIdSkipsTwo(us, baseId, userId, suffix) ==
    IF findUserByIdStmt(us, userId) # {}
    THEN FreeUserIdSkipsTwo(us, baseId, baseId \o <<"-">> \o NumberToString(suffix + 1),
                            suffix + 1)
    ELSE userId

\* the while loop of register: the first of base, base-2, base-3, ... that is free
RECURSIVE FreeUserId(_, _, _, _)
FreeUserId(us, baseId, userId, suffix) ==
    IF findUserByIdStmt(us, userId) # {}
    THEN FreeUserId(us, baseId, baseId \o <<"-">> \o NumberToString(suffix), suffix + 1)
    ELSE userId

----------------------------------------------------------------------------
(* Realm cache *)

getUserStore(stores, userId) == stores \cup {userId}

\* createStoreForUser(userId) runs: one more provisioning of a realm
createStoreForUser(log, userId) == Append(log, userId)

\* directories are sequences of path segments below __dirname
dataDir == << <<"d","a","t","a">> >>
usersDir == Append(dataDir, <<"u","s","e","r","s">>)

\* userId.replace(/[^a-zA-Z0-9._-]/g, "_")
safeUserId(userId) ==
    [ i \in 1..Len(userId) |->
        IF userId[i] \in IdChars \cup Range(UPPER) THEN userId[i] ELSE "_" ]

\* path.join(dir, name) for a name without separator: "." is dropped and ".."
\* removes the last segment of dir
pathJoin(dir, name) ==
    IF name = <<>> \/ name = <<".">> THEN dir
    ELSE IF name = <<".",".">> THEN SubSeq(dir, 1, Len(dir) - 1)
    ELSE Append(dir, name)

\* the directories createStoreForUser(userId) makes and opens
StoreOf(userId) ==
    LET userDir == pathJoin(usersDir, safeUserId(userId))
    IN  [ userDir |-> userDir,
          uploadsDir |-> pathJoin(userDir, <<"u","p","l","o","a","d","s">>),
          dbPath |-> pathJoin(userDir, <<"p","h","o","t","o","s",".","d","b">>) ]

\* a cache that never remembers: every access provisions again
storeCallsUncached(stores, log, userId) == createStoreForUser(log, userId)

\* the createStoreForUser calls made so far, after getUserStore(userId)
storeCalls(stores, log, userId) ==
    IF userId \in stores THEN log ELSE createStoreForUser(log, userId)

\* for (const user of users) getUserStore(user.id), in the app.listen callback:
\* the cache keys and the createStoreForUser calls after the loop
RECURSIVE ListenStores(_, _, _)
ListenStores(stores, log, us) ==
    IF us = <<>> THEN [stores |-> stores, log |-> log]
    ELSE ListenStores(getUserStore(stores, Head(us).id),
                      storeCalls(stores, log, Head(us).id), Tail(us))

\* listUsersStmt.all(): ORDER BY created_at ASC, rowid order among equal times
RECURSIVE listUsersStmt(_)
listUsersStmt(us) ==
    IF us = <<>> THEN <<>>
    ELSE LET i == CHOOSE i \in 1..Len(us) :
                      \A j \in 1..Len(us) :
                          \/ us[j].created_at > us[i].created_at
                          \/ us[j].created_at = us[i].created_at /\ j >= i
         IN  <<us[i]>> \o listUsersStmt(SubSeq(us, 1, i - 1) \o SubSeq(us, i + 1, Len(us)))

\* the same loop when createStoreForUser throws for the users of failing (mkdirSync
\* or new Database fails): getUserStore is not inside a try, so the throw leaves
\* the loop and the callback; thrown tells that it did
RECURSIVE ListenLoop(_, _, _, _)
ListenLoop(stores, log, us, failing) ==
    IF us = <<>> THEN [stores |-> stores, log |-> log, thrown |-> FALSE]
    ELSE IF Head(us).id \notin stores /\ Head(us).id \in failing
    THEN [stores |-> stores, log |-> createStoreForUser(log, Head(us).id), thrown |-> TRUE]
    ELSE ListenLoop(getUserStore(stores, Head(us).id),
                    storeCalls(stores, log, Head(us).id), Tail(us), failing)

----------------------------------------------------------------------------
(* File names *)

STR_JPG == <<".","j","p","g">>
STR_WEBP == <<".","w","e","b","p">>
STR_THUMB == <<"t","h","u","m","b","-">>
STR_UPLOADS == <<"/","u","p","l","o","a","d","s","/">>
STR_IMAGE == <<"i","m","a","g","e","/">>
MIME_JPEG == <<"i","m","a","g","e","/","j","p","e","g">>

StartsWith(s, prefix) ==
    Len(s) >= Len(prefix) /\ SubSeq(s, 1, Len(prefix)) = prefix

EndsWith(s, suffix) ==
    Len(s) >= Len(suffix) /\ SubSeq(s, Len(s) - Len(suffix) + 1, Len(s)) = suffix

Contains(s, part) ==
    \E i \in 1..(Len(s) - Len(part) + 1) : SubSeq(s, i, i + Len(part) - 1) = part

\* index of the last "." of s, 0 when it has none
LastDot(s) ==
    IF \E i \in 1..Len(s) : s[i] = "."
    THEN CHOOSE i \in 1..Len(s) : s[i] = "." /\ \A j \in (i + 1)..Len(s) : s[j] # "."
    ELSE 0

\* path.extname of a name without directories: from the last "." on, empty when
\* the name has no "." or only a leading one
extname(s) ==
    IF LastDot(s) <= 1 \/ s = <<".",".">> THEN <<>> ELSE SubSeq(s, LastDot(s), Len(s))

\* path.parse(filename).name
parsedName(s) == SubSeq(s, 1, Len(s) - Len(extname(s)))

thumbnailFilenameFromOriginal(filename) == STR_THUMB \o parsedName(filename) \o STR_WEBP

\* /\.(heic|heif)$/i on the file name, /image\/hei(c|f)/i on the mime type
isHeicLike(filename, mimeType) ==
    \/ EndsWith(ToLowerCase(filename), <<".","h","e","i","c">>)
    \/ EndsWith(ToLowerCase(filename), <<".","h","e","i","f">>)
    \/ Contains(ToLowerCase(mimeType), <<"i","m","a","g","e","/","h","e","i","c">>)
    \/ Contains(ToLowerCase(mimeType), <<"i","m","a","g","e","/","h","e","i","f">>)

replaceFileExtension(filename, nextExtension) == parsedName(filename) \o nextExtension

\* a display name that is kept as it was uploaded
keepDisplayName(name, nextExtension) == name

\* /\.[^.]+$/ matches when something follows the last "."
replaceDisplayExtension(name, nextExtension) ==
    IF LastDot(name) >= 1 /\ LastDot(name) < Len(name)
    THEN SubSeq(name, 1, LastDot(name) - 1) \o nextExtension
    ELSE name \o nextExtension

\* the extensions multer's fileFilter lets through
ImageExtensions ==
    { <<".","p","n","g">>, <<".","j","p","g">>, <<".","j","p","e","g">>,
      <<".","w","e","b","p">>, <<".","g","i","f">>, <<".","b","m","p">>,
      <<".","s","v","g">>, <<".","h","e","i","c">>, <<".","h","e","i","f">>,
      <<".","a","v","i","f">> }

\* upload.fileFilter: TRUE when the file is let through
fileFilter(file) ==
    LET byMime == StartsWith(file.mimetype, STR_IMAGE)
        byExtension == \E e \in ImageExtensions : EndsWith(ToLowerCase(file.originalname), e)
    IN  byMime \/ byExtension

\* a stored name without the extension of the original name
storedFilenameBare(t, random, originalname) == NumberToString(t) \o <<"-">> \o random

\* storage.filename: `${Date.now()}-${random}` and the extension of the original name
storedFilename(t, random, originalname) ==
    NumberToString(t) \o <<"-">> \o random \o extname(originalname)

----------------------------------------------------------------------------
(* The uploads directory and the photos table of a realm *)

\* a file of the uploads directory; ok tells whether sharp can decode its content
File(name, ok) == [name |-> name, ok |-> ok]

existsSync(fl, name) == \E f \in fl : f.name = name

unlinkSync(fl, name) == { f \in fl : f.name # name }

\* a write creates the file or replaces its content
writeFile(fl, name, ok) == unlinkSync(fl, name) \cup {File(name, ok)}

\* sharp(sourcePath) reads the source when the step runs: it succeeds on a file
\* that is there and that it can decode
sharpReads(fl, name) == \E f \in fl : f.name = name /\ f.ok

PhotoRow(id, name, filename, mimeType, createdAt) ==
    [ id |-> id, name |-> name, filename |-> filename, mime_type |-> mimeType,
      created_at |-> createdAt ]

insertPhoto(ph, row) == Append(ph, row)

getPhoto(ph, id) ==
    LET Match(r) == r.id = id
    IN  FirstRow(ph, Match)

deletePhoto(ph, id) ==
    LET Keep(r) == r.id # id
    IN  SelectSeq(ph, Keep)

listPhotoFiles(ph) == [ i \in 1..Len(ph) |-> ph[i].filename ]

\* WHERE lower(filename) LIKE '%.heic' OR lower(filename) LIKE '%.heif'
listPhotosForConversion(ph) ==
    LET Heic(r) == \/ EndsWith(ToLowerCase(r.filename), <<".","h","e","i","c">>)
                   \/ EndsWith(ToLowerCase(r.filename), <<".","h","e","i","f">>)
    IN  SelectSeq(ph, Heic)

updatePhotoAfterConversion(ph, id, name, filename, mimeType) ==
    [ i \in 1..Len(ph) |->
        IF ph[i].id = id
        THEN [ ph[i] EXCEPT !.name = name, !.filename = filename, !.mime_type = mimeType ]
        ELSE ph[i] ]

\* a listing that returns the rows in rowid order
listPhotosUnordered(ph) == { ph }

\* ORDER BY created_at DESC: every order of the rows with created_at not increasing
\* (SQLite leaves the order of rows with equal created_at open)
listPhotos(ph) ==
    LET n == Len(ph)
        Perms == { p \in [1..n -> 1..n] : \A i, j \in 1..n : i # j => p[i] # p[j] }
    IN  { [ i \in 1..n |-> ph[p[i]] ] :
            p \in { q \in Perms : \A i \in 1..(n - 1) :
                                     ph[q[i]].created_at >= ph[q[i + 1]].created_at } }

----------------------------------------------------------------------------
(* Photo descriptors *)

\* the characters encodeURIComponent leaves as they are
Unreserved ==
    Range(UPPER) \cup Range(LOWER) \cup Range(DIGITS)
        \cup {"-", "_", ".", "!", "~", "*", "'", "(", ")"}

HEXUPPER == <<"0","1","2","3","4","5","6","7","8","9","A","B","C","D","E","F">>

RECURSIVE encodeURIComponent(_)
encodeURIComponent(s) ==
    IF s = <<>> THEN <<>>
    ELSE (IF Head(s) \in Unreserved THEN <<Head(s)>>
          ELSE <<"%", HEXUPPER[(Ord(Head(s)) \div 16) + 1], HEXUPPER[(Ord(Head(s)) % 16) + 1]>>)
         \o encodeURIComponent(Tail(s))

withAuthQuery(pathValue, authToken) ==
    IF authToken = <<>> THEN pathValue
    ELSE pathValue \o (IF Contains(pathValue, <<"?">>) THEN <<"&">> ELSE <<"?">>)
            \o <<"a","u","t","h","=">> \o encodeURIComponent(authToken)

\* a descriptor whose thumbnailUrl names the thumbnail whether the file is there
\* or not
photoToResponseNoFallback(fl, photo, authToken) ==
    [ id |-> photo.id,
      name |-> photo.name,
      url |-> withAuthQuery(STR_UPLOADS \o photo.filename, authToken),
      thumbnailUrl |-> withAuthQuery(STR_UPLOADS
                                        \o thumbnailFilenameFromOriginal(photo.filename),
                                     authToken),
      addedAt |-> photo.created_at,
      downloadUrl |-> withAuthQuery(<<"/","a","p","i","/","p","h","o","t","o","s","/">>
                          \o photo.id \o <<"/","d","o","w","n","l","o","a","d">>,
                          authToken) ]

photoToResponse(fl, photo, authToken) ==
    LET baseThumbnail ==
            IF existsSync(fl, thumbnailFilenameFromOriginal(photo.filename))
            THEN STR_UPLOADS \o thumbnailFilenameFromOriginal(photo.filename)
            ELSE STR_UPLOADS \o photo.filename
    IN  [ id |-> photo.id,
          name |-> photo.name,
          url |-> withAuthQuery(STR_UPLOADS \o photo.filename, authToken),
          thumbnailUrl |-> withAuthQuery(baseThumbnail, authToken),
          addedAt |-> photo.created_at,
          downloadUrl |-> withAuthQuery(<<"/","a","p","i","/","p","h","o","t","o","s","/">>
                              \o photo.id \o <<"/","d","o","w","n","l","o","a","d">>,
                              authToken) ]

----------------------------------------------------------------------------
(* Startup media migration of a realm: HEIC sweep, then thumbnail backfill *)

\* no migration started yet in this process; run counts the runs over restarts and
\* writes the changes the current run made to the photos table and the uploads
\* directory; opened says that sharp could read the source of the conversion in
\* flight when that conversion was started
NoRecon ==
    [ stage |-> "idle", run |-> 0, queue |-> <<>>, cur |-> <<>>, writes |-> 0,
      opened |-> FALSE ]

\* a backfill that regenerates every thumbnail
backfillRegenerates(fl, filename) == FALSE

\* backfillThumbnails skips a row whose thumbnail file exists
backfillSkips(fl, filename) == existsSync(fl, thumbnailFilenameFromOriginal(filename))

\* backfillThumbnails from the file names left: up to the next await
RECURSIVE backfillFrom(_, _, _)
backfillFrom(rec, names, fl) ==
    IF names = <<>>
    THEN [ rec EXCEPT !.stage = "done", !.queue = <<>>, !.cur = <<>>, !.opened = FALSE ]
    ELSE IF backfillSkips(fl, Head(names)) THEN backfillFrom(rec, Tail(names), fl)
    ELSE [ rec EXCEPT !.stage = "backfill", !.queue = names, !.cur = <<>>,
                      !.opened = FALSE ]

\* migrateHeicPhotosToJpeg from the rows left: convertStoredHeicToJpeg returns null
\* at once for a row whose file is gone; after the last row the backfill starts
RECURSIVE sweepFrom(_, _, _, _)
sweepFrom(rec, rows, ph, fl) ==
    IF rows = <<>> THEN backfillFrom(rec, listPhotoFiles(ph), fl)
    ELSE IF ~existsSync(fl, Head(rows).filename) THEN sweepFrom(rec, Tail(rows), ph, fl)
    ELSE [ rec EXCEPT !.stage = "convert", !.queue = rows, !.cur = <<>>,
                      !.opened = sharpReads(fl, Head(rows).filename) ]

\* a migration that runs the thumbnail backfill only
startMigrationBackfillOnly(rec, ph, fl) ==
    backfillFrom([ rec EXCEPT !.run = rec.run + 1, !.writes = 0 ], listPhotoFiles(ph), fl)

\* migrateHeicPhotosToJpeg(store).then(() => backfillThumbnails(store)) is called
startMigration(rec, ph, fl) ==
    sweepFrom([ rec EXCEPT !.run = rec.run + 1, !.writes = 0 ],
              listPhotosForConversion(ph), ph, fl)

----------------------------------------------------------------------------
(* Requests and responses *)

\* req.headers.authorization and req.query.auth of a request: <<>> is a header that
\* was not sent, and a query parameter that is missing, empty or not a string
Req(authorization, auth) == [ authorization |-> authorization, auth |-> auth ]

NoReq == Req(<<>>, <<>>)

NoRequest ==
    [ op |-> "none", loginId |-> <<>>, password |-> <<>>, sent |-> <<>>,
      status |-> 0, code |-> "", token |-> <<>>, user |-> {}, realm |-> {},
      req |-> NoReq ]

\* the request (op and its inputs) and what res.status(..).json(..) answers;
\* realm is the key of the store the handler obtained
Response(op, loginId, password, sent, status, code, token, user, realm) ==
    [ op |-> op, loginId |-> loginId, password |-> password, sent |-> sent,
      status |-> status, code |-> code, token |-> token, user |-> user,
      realm |-> realm, req |-> NoReq ]

UserDescriptor(id, username) ==
    [ id |-> id, username |-> username,
      storageFolder |-> <<"u","s","e","r","s","/">> \o id ]

\* the client keeps the token of a login (localStorage); a full store replaces one
HoldToken(held, token, owner) ==
    IF Cardinality(held) < MaxTokens
    THEN { held \cup {[token |-> token, owner |-> owner]} }
    ELSE { (held \ {old}) \cup {[token |-> token, owner |-> owner]} : old \in held }

\* no token issued yet
NoProbe ==
    [ userId |-> <<>>, issuedAt |-> 0, token |-> <<>>, tampered |-> FALSE,
      verified |-> FALSE, parsed |-> {}, checkedAt |-> 0 ]

\* the user whose realm (photos table, uploads directory) is followed, and the
\* token their photo requests carry (req.authUserId, req.authToken)
RealmUser == normalizeUserId(DEFAULT_USER_ID)
AuthToken == <<"t","k">>

\* no POST /api/photos in flight: batch holds the files multer stored, i the
\* position of the loop, at the handler's now, cur the row of the file in hand,
\* created the descriptors pushed, inserted the ids of the rows inserted
NoUpload ==
    [ stage |-> "idle", batch |-> <<>>, i |-> 0, at |-> 0, cur |-> <<>>,
      created |-> <<>>, inserted |-> <<>> ]

\* no photo request answered yet
NoOut ==
    [ op |-> "none", id |-> <<>>, status |-> 0, error |-> "", photos |-> <<>>,
      file |-> <<>>, batch |-> <<>>, inserted |-> <<>>, failed |-> 0 ]

\* a realm that holds nothing
EmptyRealm == [ photos |-> <<>>, files |-> {} ]

\* no page of the client is open: the hooks hold nothing
NoLibrary ==
    [ photos |-> <<>>, isDatabaseDown |-> FALSE, authToken |-> <<>>, authUser |-> <<>>,
      authError |-> "", authErrorCode |-> "", authNotice |-> "",
      stored |-> <<>>, inflight |-> EmptyBag ]

NoPinchGrid ==
    [ presetIndex |-> 1, lastScale |-> 0, call |-> "none", idx |-> 0, delta |-> 0,
      first |-> FALSE, was |-> 1 ]

InitAuth(legacyFiles) ==
    /\ phase = "boot"
    /\ legacyFile \in legacyFiles
    /\ users = <<>>
    /\ storesByUserId = {}
    /\ now = 0
    /\ tokens = {}
    /\ res = NoRequest
    /\ probe = NoProbe
    /\ provisioned = <<>>
    /\ library = NoLibrary
    /\ pinchGrid = NoPinchGrid

\* what the data directory holds for the realm when the process starts
InitRealm(realms) ==
    /\ \E r \in realms : photos = r.photos /\ uploadsDir = r.files
    /\ upload = NoUpload
    /\ out = NoOut
    /\ recon = NoRecon
    /\ fresh = 0

InitWith(legacyFiles) == InitAuth(legacyFiles) /\ InitRealm({EmptyRealm})

Init == InitWith(LegacyFiles)

\* module load: migrateLegacyUsersIfNeeded()
Boot ==
    /\ phase = "boot"
    /\ users' = migrateLegacyUsersIfNeeded(users, legacyFile, now)
    /\ phase' = "loaded"
    /\ UNCHANGED <<legacyFile, library, pinchGrid, storesByUserId, now, tokens, res, probe,
                   provisioned>>
    /\ UNCHANGED realmVars

\* the app.listen callback: the default user, then for every known user a store
\* and the start of its media migration
Listen ==
    /\ phase = "loaded"
    /\ \E salt \in SaltValues :
         LET us == ensureDefaultUser(users, now, salt)
             st == ListenStores(storesByUserId, provisioned, us)
         IN  /\ users' = us
             /\ storesByUserId' = st.stores
             /\ provisioned' = st.log
             /\ recon' = IF \E i \in 1..Len(us) : us[i].id = RealmUser
                         THEN startMigration(recon, photos, uploadsDir)
                         ELSE recon
    /\ phase' = "serving"
    /\ UNCHANGED <<legacyFile, library, pinchGrid, now, tokens, res, probe>>
    /\ UNCHANGED <<photos, uploadsDir, upload, out, fresh>>

\* the app.listen callback on a start at which createStoreForUser throws for the
\* users of failing. A throw out of the callback is an uncaught exception, which
\* ends the process ("down"): the migrations the loop had started are lost with
\* it, and the users after the failing one were never reached
ListenFailing(failing) ==
    /\ phase = "loaded"
    /\ \E salt \in SaltValues :
         LET us == ensureDefaultUser(users, now, salt)
             st == ListenLoop(storesByUserId, provisioned, listUsersStmt(us), failing)
         IN  /\ users' = us
             /\ storesByUserId' = st.stores
             /\ provisioned' = st.log
             /\ phase' = IF st.thrown THEN "down" ELSE "serving"
             /\ recon' = IF ~st.thrown /\ RealmUser \in st.stores
                         THEN startMigration(recon, photos, uploadsDir)
                         ELSE recon
    /\ UNCHANGED <<legacyFile, library, pinchGrid, now, tokens, res, probe>>
    /\ UNCHANGED <<photos, uploadsDir, upload, out, fresh>>

\* POST /api/auth/login
Login(loginIdRaw, passwordRaw) ==
    /\ phase = "serving"
    /\ \E salt \in SaltValues, uuid \in UuidValues :
         LET loginId == Trim(loginIdRaw)
             password == passwordRaw
             us == ensureDefaultUser(users, now, salt)
             found == findUserByLogin(us, loginId)
             user == CHOOSE u \in found : TRUE
             computed == hashPassword(password, user.password_salt)
             token == issueToken(user.id, now, uuid)
         IN  IF loginId = <<>> \/ password = <<>> THEN
                 /\ res' = Response("login", loginIdRaw, passwordRaw, <<>>, 400, "", <<>>, {}, {})
                 /\ UNCHANGED <<users, storesByUserId, provisioned>>
             ELSE IF found = {} THEN
                 /\ res' = Response("login", loginIdRaw, passwordRaw, <<>>, 404,
                                    "USER_NOT_FOUND", <<>>, {}, {})
                 /\ users' = us
                 /\ UNCHANGED <<storesByUserId, provisioned>>
             ELSE IF ~safeCompareHex(computed.hashHex, user.password_hash) THEN
                 /\ res' = Response("login", loginIdRaw, passwordRaw, <<>>, 401,
                                    "INVALID_PASSWORD", <<>>, {}, {})
                 /\ users' = us
                 /\ UNCHANGED <<storesByUserId, provisioned>>
             ELSE
                 /\ users' = us
                 /\ storesByUserId' = getUserStore(storesByUserId, user.id)
                 /\ provisioned' = storeCalls(storesByUserId, provisioned, user.id)
                 /\ res' = Response("login", loginIdRaw, passwordRaw, <<>>, 200, "", token,
                                    {UserDescriptor(user.id, user.username)}, {user.id})
    /\ UNCHANGED <<phase, legacyFile, library, pinchGrid, now, tokens, probe>>
    /\ UNCHANGED realmVars

\* the client keeps the token of the login it has just been answered
ClientKeepsToken ==
    /\ res.op = "login"
    /\ res.status = 200
    /\ \E u \in res.user : tokens' \in HoldToken(tokens, res.token, u.id)
    /\ tokens' # tokens
    /\ UNCHANGED <<phase, legacyFile, library, pinchGrid, users, storesByUserId, now, res,
                   probe, provisioned>>
    /\ UNCHANGED realmVars

\* a validation whose length checks are off by one
registerValidationLax(loginId, password) ==
    IF loginId = <<>> \/ password = <<>> THEN 400
    ELSE IF Len(loginId) < 2 THEN 400
    ELSE IF Len(password) < 5 THEN 400
    ELSE 0

\* the three validation returns of register: the status they answer, 0 when passed
registerValidation(loginId, password) ==
    IF loginId = <<>> \/ password = <<>> THEN 400
    ELSE IF Len(loginId) < 3 THEN 400
    ELSE IF Len(password) < 6 THEN 400
    ELSE 0

\* a registration that answers as a login does, with a token
registerBodyWithToken(userId, loginId) ==
    [ token |-> issueToken(userId, 0, <<"7","c">>),
      user |-> {UserDescriptor(userId, loginId)} ]

\* the body of a registration's 201 answer: { message, user }
registerBody(userId, loginId) ==
    [ token |-> <<>>, user |-> {UserDescriptor(userId, loginId)} ]

\* POST /api/auth/register
Register(loginIdRaw, passwordRaw) ==
    /\ phase = "serving"
    /\ \E salt \in SaltValues :
         LET loginId == Trim(loginIdRaw)
             password == passwordRaw
             baseId == normalizeUserId(loginId)
             userId == FreeUserId(users, baseId, baseId, 2)
             h == hashPassword(password, salt)
             body == registerBody(userId, loginId)
         IN  IF registerValidation(loginId, password) # 0 THEN
                 /\ res' = Response("register", loginIdRaw, passwordRaw, <<>>,
                                    registerValidation(loginId, password), "", <<>>, {}, {})
                 /\ UNCHANGED <<users, storesByUserId, provisioned>>
             ELSE IF findUserByUsernameStmt(users, loginId) # {} THEN
                 /\ res' = Response("register", loginIdRaw, passwordRaw, <<>>, 409,
                                    "USER_EXISTS", <<>>, {}, {})
                 /\ UNCHANGED <<users, storesByUserId, provisioned>>
             ELSE
                 /\ Len(users) < MaxUsers
                 /\ users' = insertUserStmt(users, UserRow(userId, loginId, h.saltHex,
                                                           h.hashHex, now))
                 /\ storesByUserId' = getUserStore(storesByUserId, userId)
                 /\ provisioned' = storeCalls(storesByUserId, provisioned, userId)
                 /\ res' = Response("register", loginIdRaw, passwordRaw, <<>>, 201, "",
                                    body.token, body.user, {userId})
    /\ UNCHANGED <<phase, legacyFile, library, pinchGrid, now, tokens, probe>>
    /\ UNCHANGED realmVars

\* a gate that lets every request with a token through, as the user the token names
requireAuthUnverified(sent, t) ==
    IF sent = <<>> THEN {} ELSE { Split(sent, ".")[1] }

\* requireAuth: {} when the request is refused, else the authUserId
requireAuth(sent, t) == { p.userId : p \in verifyToken(sent, t) }

\* what each handler answers on a realm that holds no photo
EmptyRealmStatus(op) ==
    IF op = "list" THEN 200 ELSE IF op = "upload" THEN 201 ELSE 404

\* GET /api/photos, POST /api/photos, DELETE /api/photos/:id,
\* GET /api/photos/:id/download, GET /uploads/:filename: requireAuth, then the
\* handler takes the store of req.authUserId
AuthorizedRequest(op, sent) ==
    /\ phase = "serving"
    /\ LET auth == requireAuth(sent, now)
           authUserId == CHOOSE u \in auth : TRUE
       IN  IF auth = {} THEN
               /\ res' = Response(op, <<>>, <<>>, sent, 401, "", <<>>, {}, {})
               /\ UNCHANGED <<storesByUserId, provisioned>>
           ELSE
               /\ storesByUserId' = getUserStore(storesByUserId, authUserId)
               /\ provisioned' = storeCalls(storesByUserId, provisioned, authUserId)
               /\ res' = Response(op, <<>>, <<>>, sent, EmptyRealmStatus(op), "", <<>>, {},
                                  {authUserId})
    /\ UNCHANGED <<phase, legacyFile, library, pinchGrid, users, now, tokens, probe>>
    /\ UNCHANGED realmVars

BEARER == <<"B","e","a","r","e","r"," ">>

\* an extractToken that looks at the query string first
extractTokenQueryFirst(req) ==
    IF Trim(req.auth) # <<>> THEN Trim(req.auth)
    ELSE IF StartsWith(req.authorization, BEARER)
    THEN Trim(SubSeq(req.authorization, Len(BEARER) + 1, Len(req.authorization)))
    ELSE <<>>

\* extractToken(req): <<>> is null (verifyToken refuses null and "" alike)
extractToken(req) ==
    IF StartsWith(req.authorization, BEARER)
    THEN Trim(SubSeq(req.authorization, Len(BEARER) + 1, Len(req.authorization)))
    ELSE IF Trim(req.auth) # <<>> THEN Trim(req.auth)
    ELSE <<>>

\* the same routes, from the request as it arrives: extractToken, requireAuth, then
\* the handler takes the store of req.authUserId
GatedRequest(op, req) ==
    /\ phase = "serving"
    /\ LET token == extractToken(req)
           auth == requireAuth(token, now)
           authUserId == CHOOSE u \in auth : TRUE
       IN  IF auth = {} THEN
               /\ res' = [ Response(op, <<>>, <<>>, token, 401, "", <<>>, {}, {})
                             EXCEPT !.req = req ]
               /\ UNCHANGED <<storesByUserId, provisioned>>
           ELSE
               /\ storesByUserId' = getUserStore(storesByUserId, authUserId)
               /\ provisioned' = storeCalls(storesByUserId, provisioned, authUserId)
               /\ res' = [ Response(op, <<>>, <<>>, token, EmptyRealmStatus(op), "", <<>>,
                                    {}, {authUserId}) EXCEPT !.req = req ]
    /\ UNCHANGED <<phase, legacyFile, library, pinchGrid, users, now, tokens, probe>>
    /\ UNCHANGED realmVars

\* GET /api/auth/me: requireAuth, ensureDefaultUser(), then the user of req.authUserId
Me(req) ==
    /\ phase = "serving"
    /\ \E salt \in SaltValues :
         LET token == extractToken(req)
             auth == requireAuth(token, now)
             authUserId == CHOOSE u \in auth : TRUE
             us == ensureDefaultUser(users, now, salt)
             found == findUserByIdStmt(us, authUserId)
             user == CHOOSE u \in found : TRUE
         IN  IF auth = {} THEN
                 /\ res' = [ Response("me", <<>>, <<>>, token, 401, "", <<>>, {}, {})
                               EXCEPT !.req = req ]
                 /\ UNCHANGED users
             ELSE IF found = {} THEN
                 /\ res' = [ Response("me", <<>>, <<>>, token, 401, "", <<>>, {}, {})
                               EXCEPT !.req = req ]
                 /\ users' = us
             ELSE
                 /\ res' = [ Response("me", <<>>, <<>>, token, 200, "", <<>>,
                                      {UserDescriptor(user.id, user.username)}, {})
                               EXCEPT !.req = req ]
                 /\ users' = us
    /\ UNCHANGED <<phase, legacyFile, library, pinchGrid, storesByUserId, now, tokens, probe,
                   provisioned>>
    /\ UNCHANGED realmVars

----------------------------------------------------------------------------
(* Photo requests on the realm of RealmUser; each has passed requireAuth *)

\* the answer of a photo request: id is req.params.id, photos the descriptors of the
\* body, file the stored name res.download sends; batch, inserted and failed tell,
\* for an upload, the files it was sent, the ids of the rows it inserted and the
\* position of the file whose conversion threw (0 when none did)
Out(op, id, status, error, descriptors, file, batch, inserted, failed) ==
    [ op |-> op, id |-> id, status |-> status, error |-> error, photos |-> descriptors,
      file |-> file, batch |-> batch, inserted |-> inserted, failed |-> failed ]

\* randomUUID() and Math.random().toString(36).slice(2, 10): the k-th value drawn
PhotoId(k) == <<"p">> \o NumberToString(k)
RandomPart(k) == <<"r">> \o NumberToString(k)

\* a file of a multipart request: its name, its declared type, and whether sharp
\* can decode its content
UploadFile(originalname, mimetype, ok) ==
    [ originalname |-> originalname, mimetype |-> mimetype, ok |-> ok ]

UploadFiles ==
    { UploadFile(<<"a",".","p","n","g">>, <<"i","m","a","g","e","/","p","n","g">>, TRUE),
      UploadFile(<<"b",".","p","n","g">>, <<"i","m","a","g","e","/","p","n","g">>, FALSE),
      UploadFile(<<"c",".","H","E","I","C">>, <<"i","m","a","g","e","/","h","e","i","c">>, TRUE),
      UploadFile(<<"d",".","h","e","i","c">>,
                 <<"a","p","p","l","i","c","a","t","i","o","n","/","o","c","t","e","t">>, FALSE),
      UploadFile(<<"e",".","j","p","g">>, <<"i","m","a","g","e","/","h","e","i","f">>, TRUE),
      UploadFile(<<"n",".","t","x","t">>, <<"t","e","x","t","/","p","l","a","i","n">>, FALSE) }

\* the requests of at most maxLen files
Batches(fileSet, maxLen) ==
    UNION { [1..n -> fileSet] : n \in 0..maxLen }

\* sharp(sourcePath)...toFile(targetPath): TRUE when it writes the target; sharp
\* refuses to write the file it reads
convertImageToJpeg(fl, source, target) == source # target /\ sharpReads(fl, source)

\* ensureThumbnail: the uploads directory after it; unchanged when sharp throws
ensureThumbnail(fl, filename) ==
    IF sharpReads(fl, filename)
    THEN writeFile(fl, thumbnailFilenameFromOriginal(filename), TRUE)
    ELSE fl

\* the for loop of POST /api/photos from position up.i to its next await: a file
\* that is not HEIC is inserted at once and its thumbnail awaited, a HEIC file
\* has its conversion awaited, the end of the batch is the response
uploadLoop(up, ph) ==
    IF up.i > Len(up.batch) THEN [ up |-> [ up EXCEPT !.stage = "respond" ], ph |-> ph ]
    ELSE LET file == up.batch[up.i]
             row == PhotoRow(file.id, file.originalname, file.filename, file.mimetype, up.at)
         IN  IF isHeicLike(file.originalname, file.mimetype)
             THEN [ up |-> [ up EXCEPT !.stage = "convert" ], ph |-> ph ]
             ELSE [ up |-> [ up EXCEPT !.stage = "thumb", !.cur = row,
                                       !.inserted = Append(@, row.id) ],
                    ph |-> insertPhoto(ph, row) ]

\* the upload goes on, or answers 201 with the descriptors it pushed
UploadGoesOn(r) ==
    IF r.up.stage = "respond"
    THEN /\ upload' = NoUpload
         /\ out' = Out("upload", <<>>, 201, "", r.up.created, <<>>, r.up.batch,
                       r.up.inserted, 0)
    ELSE /\ upload' = r.up
         /\ out' = out

\* every photo handler starts with getUserStore(req.authUserId)
TakesStore ==
    /\ storesByUserId' = getUserStore(storesByUserId, RealmUser)
    /\ provisioned' = storeCalls(storesByUserId, provisioned, RealmUser)

\* POST /api/photos arrives: multer filters and stores the files, then the handler
\* runs to its first await
UploadStart(batch) ==
    /\ phase = "serving"
    /\ upload.stage = "idle"
    /\ fresh + Len(batch) <= MaxPhotos
    /\ IF \E k \in 1..Len(batch) : ~fileFilter(batch[k]) THEN
           /\ out' = Out("upload", <<>>, 400, "Only image files are allowed", <<>>, <<>>,
                         [ k \in 1..Len(batch) |->
                             [ originalname |-> batch[k].originalname,
                               mimetype |-> batch[k].mimetype, ok |-> batch[k].ok,
                               id |-> <<>>, filename |-> <<>> ] ],
                         <<>>, 0)
           /\ IF fileFilter(batch[1]) THEN TakesStore
              ELSE UNCHANGED <<storesByUserId, provisioned>>
           /\ UNCHANGED <<photos, uploadsDir, upload, fresh>>
       ELSE
           LET stored == [ k \in 1..Len(batch) |->
                             [ originalname |-> batch[k].originalname,
                               mimetype |-> batch[k].mimetype,
                               ok |-> batch[k].ok,
                               id |-> PhotoId(fresh + k),
                               filename |-> storedFilename(now, RandomPart(fresh + k),
                                                           batch[k].originalname) ] ]
               r == uploadLoop([ NoUpload EXCEPT !.batch = stored, !.i = 1, !.at = now ],
                               photos)
           IN  /\ TakesStore
               /\ uploadsDir' = uploadsDir
                     \cup { File(stored[k].filename, stored[k].ok) : k \in 1..Len(stored) }
               /\ photos' = r.ph
               /\ fresh' = fresh + Len(batch)
               /\ UploadGoesOn(r)
    /\ UNCHANGED <<phase, legacyFile, library, pinchGrid, users, now, tokens, res, probe, recon>>

\* the awaited convertImageToJpeg of the file in hand settles
UploadConvertDone ==
    /\ upload.stage = "convert"
    /\ LET file == upload.batch[upload.i]
           sourcePath == file.filename
           convertedFilename == replaceFileExtension(file.filename, STR_JPG)
           row == PhotoRow(file.id, replaceDisplayExtension(file.originalname, STR_JPG),
                           convertedFilename, MIME_JPEG, upload.at)
       IN  IF convertImageToJpeg(uploadsDir, sourcePath, convertedFilename) THEN
               /\ uploadsDir' = unlinkSync(writeFile(uploadsDir, convertedFilename, TRUE),
                                           sourcePath)
               /\ photos' = insertPhoto(photos, row)
               /\ upload' = [ upload EXCEPT !.stage = "thumb", !.cur = row,
                                            !.inserted = Append(@, row.id) ]
               /\ out' = out
           ELSE
               /\ uploadsDir' = unlinkSync(uploadsDir, sourcePath)
               /\ photos' = photos
               /\ upload' = NoUpload
               /\ out' = Out("upload", <<>>, 400, "HEIC conversion failed", <<>>, <<>>,
                             upload.batch, upload.inserted, upload.i)
    /\ UNCHANGED <<phase, legacyFile, library, pinchGrid, users, storesByUserId, now, tokens,
                   res, probe,
                   provisioned, recon, fresh>>

\* TRUE when sharp could read the asset of the file in hand at the moment its
\* ensureThumbnail was called: an uploaded file as the client sent it, a converted
\* one as convertImageToJpeg wrote it
uploadSourceRead(up) ==
    LET file == up.batch[up.i]
    IN  isHeicLike(file.originalname, file.mimetype) \/ file.ok

\* the uploads directories the awaited ensureThumbnail can leave: sharp reads the
\* asset in a worker thread while the event loop serves other requests, so when
\* the asset was unlinked during the await sharp either had not opened it (it
\* throws, nothing is written) or had read it (the thumbnail is written after
\* the unlink)
ensureThumbnailSettled(fl, up) ==
    { ensureThumbnail(fl, up.cur.filename) }
        \cup IF ~existsSync(fl, up.cur.filename) /\ uploadSourceRead(up)
             THEN { writeFile(fl, thumbnailFilenameFromOriginal(up.cur.filename), TRUE) }
             ELSE {}

\* the awaited ensureThumbnail of the file in hand settles: the descriptor is pushed
\* and the loop goes on
UploadThumbDone ==
    /\ upload.stage = "thumb"
    /\ \E fl \in ensureThumbnailSettled(uploadsDir, upload) :
         LET r == uploadLoop([ upload EXCEPT
                                 !.created = Append(@, photoToResponse(fl, upload.cur,
                                                                        AuthToken)),
                                 !.i = @ + 1, !.cur = <<>> ],
                             photos)
         IN  /\ uploadsDir' = fl
             /\ photos' = r.ph
             /\ UploadGoesOn(r)
    /\ UNCHANGED <<phase, legacyFile, library, pinchGrid, users, storesByUserId, now, tokens,
                   res, probe,
                   provisioned, recon, fresh>>

\* GET /api/photos
ListPhotos ==
    /\ phase = "serving"
    /\ TakesStore
    /\ \E rows \in listPhotos(photos) :
         out' = Out("list", <<>>, 200, "",
                    [ i \in 1..Len(rows) |-> photoToResponse(uploadsDir, rows[i], AuthToken) ],
                    <<>>, <<>>, <<>>, 0)
    /\ UNCHANGED <<phase, legacyFile, library, pinchGrid, users, now, tokens, res, probe>>
    /\ UNCHANGED <<photos, uploadsDir, upload, recon, fresh>>

\* a delete that removes the row and leaves the files
deletePhotoFilesKept(fl, photo) == fl

\* the uploads directory after DELETE /api/photos/:id found the row: the asset and
\* the thumbnail are unlinked when they exist
deletePhotoFiles(fl, photo) ==
    unlinkSync(unlinkSync(fl, photo.filename), thumbnailFilenameFromOriginal(photo.filename))

\* DELETE /api/photos/:id
DeletePhoto(id) ==
    /\ phase = "serving"
    /\ TakesStore
    /\ LET found == getPhoto(photos, id)
           photo == CHOOSE r \in found : TRUE
       IN  IF found = {} THEN
               /\ out' = Out("delete", id, 404, "Photo not found", <<>>, <<>>, <<>>, <<>>, 0)
               /\ UNCHANGED <<photos, uploadsDir>>
           ELSE
               /\ uploadsDir' = deletePhotoFiles(uploadsDir, photo)
               /\ photos' = deletePhoto(photos, id)
               /\ out' = Out("delete", id, 204, "", <<>>, <<>>, <<>>, <<>>, 0)
    /\ UNCHANGED <<phase, legacyFile, library, pinchGrid, users, now, tokens, res, probe>>
    /\ UNCHANGED <<upload, recon, fresh>>

\* a delete that removes the row before it removes the files
deletePhotoUpToRowFirst(fl, ph, photo, k) ==
    [ files |-> IF k >= 3 THEN deletePhotoFiles(fl, photo)
                ELSE IF k >= 2 THEN unlinkSync(fl, photo.filename) ELSE fl,
      rows |-> IF k >= 1 THEN deletePhoto(ph, photo.id) ELSE ph ]

\* the realm after the first k of the three effects of DELETE /api/photos/:id on
\* the row it found: the asset unlinked, the thumbnail unlinked, the row deleted
deletePhotoUpTo(fl, ph, photo, k) ==
    [ files |-> IF k >= 2 THEN deletePhotoFiles(fl, photo)
                ELSE IF k >= 1 THEN unlinkSync(fl, photo.filename) ELSE fl,
      rows |-> IF k >= 3 THEN deletePhoto(ph, photo.id) ELSE ph ]

\* the points between the effects of a delete
DeletePoints == 1..2

\* DELETE /api/photos/:id finds the row and the process dies after the first k
\* effects: no response is sent, what was in flight is lost, the database and the
\* uploads directory stay as they are and the process is started again
DeletePhotoCrash(id, k) ==
    /\ phase = "serving"
    /\ recon.run < MaxRuns
    /\ getPhoto(photos, id) # {}
    /\ LET photo == CHOOSE r \in getPhoto(photos, id) : TRUE
           after == deletePhotoUpTo(uploadsDir, photos, photo, k)
       IN  /\ uploadsDir' = after.files
           /\ photos' = after.rows
    /\ out' = Out("delete", id, 0, "", <<>>, <<>>, <<>>, <<>>, 0)
    /\ phase' = "boot"
    /\ storesByUserId' = {}
    /\ provisioned' = <<>>
    /\ upload' = NoUpload
    /\ recon' = [ NoRecon EXCEPT !.run = recon.run ]
    /\ UNCHANGED <<legacyFile, library, pinchGrid, users, now, tokens, res, probe, fresh>>

\* a download that does not look at the disk
downloadAnswerBlind(fl, found) ==
    IF found = {} THEN [ status |-> 404, error |-> "Photo not found", file |-> <<>> ]
    ELSE [ status |-> 200, error |-> "", file |-> (CHOOSE r \in found : TRUE).filename ]

\* what GET /api/photos/:id/download answers for the row it found
downloadAnswer(fl, found) ==
    IF found = {} THEN [ status |-> 404, error |-> "Photo not found", file |-> <<>> ]
    ELSE IF ~existsSync(fl, (CHOOSE r \in found : TRUE).filename)
    THEN [ status |-> 404, error |-> "File missing on disk", file |-> <<>> ]
    ELSE [ status |-> 200, error |-> "", file |-> (CHOOSE r \in found : TRUE).filename ]

\* GET /api/photos/:id/download
DownloadPhoto(id) ==
    /\ phase = "serving"
    /\ TakesStore
    /\ LET a == downloadAnswer(uploadsDir, getPhoto(photos, id))
       IN  out' = Out("download", id, a.status, a.error, <<>>, a.file, <<>>, <<>>, 0)
    /\ UNCHANGED <<phase, legacyFile, library, pinchGrid, users, now, tokens, res, probe>>
    /\ UNCHANGED <<photos, uploadsDir, upload, recon, fresh>>

\* GET /uploads/:filename, the name being one without directories (path.basename
\* leaves it as it is): the file is sent when it is there, nothing is written
GetUpload(filename) ==
    /\ phase = "serving"
    /\ TakesStore
    /\ out' = IF existsSync(uploadsDir, filename)
              THEN Out("asset", <<>>, 200, "", <<>>, filename, <<>>, <<>>, 0)
              ELSE Out("asset", <<>>, 404, "File not found", <<>>, filename, <<>>, <<>>, 0)
    /\ UNCHANGED <<phase, legacyFile, library, pinchGrid, users, now, tokens, res, probe>>
    /\ UNCHANGED <<photos, uploadsDir, upload, recon, fresh>>

\* the uploads directory is a directory of plain files: the thumbnail of a row is
\* removed from it by something other than the server, while the server runs
ThumbnailLost(id) ==
    /\ phase = "serving"
    /\ \E r \in getPhoto(photos, id) :
          /\ existsSync(uploadsDir, thumbnailFilenameFromOriginal(r.filename))
          /\ uploadsDir' = unlinkSync(uploadsDir, thumbnailFilenameFromOriginal(r.filename))
    /\ UNCHANGED <<phase, legacyFile, library, pinchGrid, users, storesByUserId, now, tokens,
                   res, probe,
                   provisioned, photos, upload, out, recon, fresh>>

----------------------------------------------------------------------------
(* The steps of the startup media migration, and a restart of the process *)

\* the awaited convertImageToJpeg of convertStoredHeicToJpeg settles: on success
\* the old thumbnail and the old file are unlinked and the new thumbnail awaited;
\* a throw is caught by migrateHeicPhotosToJpeg, which goes on with the next row.
\* When the source was unlinked while the conversion was awaited, sharp either
\* found no file and throws, or had the file open and writes the target: then
\* the old thumbnail is unlinked and fs.unlinkSync(oldPath) throws
MigrationConvertDone ==
    /\ recon.stage = "convert"
    /\ LET photo == Head(recon.queue)
           oldFilename == photo.filename
           newFilename == replaceFileExtension(oldFilename, STR_JPG)
           oldThumbnail == thumbnailFilenameFromOriginal(oldFilename)
       IN  IF convertImageToJpeg(uploadsDir, oldFilename, newFilename) THEN
               /\ uploadsDir' = unlinkSync(unlinkSync(writeFile(uploadsDir, newFilename, TRUE),
                                                      oldThumbnail), oldFilename)
               /\ recon' = [ recon EXCEPT
                               !.stage = "thumb", !.cur = newFilename, !.opened = FALSE,
                               !.writes = @ + 2 + (IF existsSync(uploadsDir, oldThumbnail)
                                                   THEN 1 ELSE 0) ]
           ELSE
               \/ /\ uploadsDir' = uploadsDir
                  /\ recon' = sweepFrom(recon, Tail(recon.queue), photos, uploadsDir)
               \/ /\ recon.opened
                  /\ ~existsSync(uploadsDir, oldFilename)
                  /\ LET fl == unlinkSync(writeFile(uploadsDir, newFilename, TRUE),
                                          oldThumbnail)
                         w == recon.writes + 1 + (IF existsSync(uploadsDir, oldThumbnail)
                                                  THEN 1 ELSE 0)
                     IN  /\ uploadsDir' = fl
                         /\ recon' = sweepFrom([ recon EXCEPT !.writes = w ],
                                               Tail(recon.queue), photos, fl)
    /\ UNCHANGED <<phase, legacyFile, library, pinchGrid, users, storesByUserId, now, tokens,
                   res, probe,
                   provisioned, photos, upload, out, fresh>>

\* the awaited ensureThumbnail of convertStoredHeicToJpeg settles: the row is
\* updated (statSync throws when the new file is gone) and the sweep goes on
MigrationThumbDone ==
    /\ recon.stage = "thumb"
    /\ LET photo == Head(recon.queue)
           newFilename == recon.cur
           fl == ensureThumbnail(uploadsDir, newFilename)
           ph == IF existsSync(fl, newFilename)
                 THEN updatePhotoAfterConversion(photos, photo.id,
                          replaceDisplayExtension(photo.name, STR_JPG), newFilename, MIME_JPEG)
                 ELSE photos
           w == recon.writes + (IF sharpReads(uploadsDir, newFilename) THEN 1 ELSE 0)
                             + (IF ph # photos THEN 1 ELSE 0)
       IN  /\ uploadsDir' = fl
           /\ photos' = ph
           /\ recon' = sweepFrom([ recon EXCEPT !.writes = w ], Tail(recon.queue), ph, fl)
    /\ UNCHANGED <<phase, legacyFile, library, pinchGrid, users, storesByUserId, now, tokens,
                   res, probe,
                   provisioned, upload, out, fresh>>

\* the awaited ensureThumbnail of backfillThumbnails settles; a throw is a warning
MigrationBackfillDone ==
    /\ recon.stage = "backfill"
    /\ LET filename == Head(recon.queue)
           fl == ensureThumbnail(uploadsDir, filename)
           w == recon.writes + (IF sharpReads(uploadsDir, filename) THEN 1 ELSE 0)
       IN  /\ uploadsDir' = fl
           /\ recon' = backfillFrom([ recon EXCEPT !.writes = w ], Tail(recon.queue), fl)
    /\ UNCHANGED <<phase, legacyFile, library, pinchGrid, users, storesByUserId, now, tokens,
                   res, probe,
                   provisioned, photos, upload, out, fresh>>

\* the process is stopped after its migration is over and started again: the
\* databases and the uploads directory stay, the realm cache starts empty
Restart ==
    /\ phase = "serving"
    /\ recon.stage \in {"idle", "done"}
    /\ upload.stage = "idle"
    /\ recon.run < MaxRuns
    /\ phase' = "boot"
    /\ storesByUserId' = {}
    /\ provisioned' = <<>>
    /\ recon' = [ recon EXCEPT !.stage = "idle" ]
    /\ UNCHANGED <<legacyFile, library, pinchGrid, users, now, tokens, res, probe, photos,
                   uploadsDir, upload,
                   out, fresh>>

\* time passes
Tick ==
    /\ now < MaxNow
    /\ now' = now + 1
    /\ UNCHANGED <<phase, legacyFile, library, pinchGrid, users, storesByUserId, tokens, res,
                   probe, provisioned>>
    /\ UNCHANGED realmVars

----------------------------------------------------------------------------
(* The client: the usePhotoLibrary hook of one browser tab. A request the  *)
(* hook has sent stays in library.inflight until its response arrives; the *)
(* server is whatever answers, so a response is any answer the server can  *)
(* give to the request                                                     *)

\* the bearer tokens a login response can carry, and the user each belongs to
LibraryTokens == { <<"t","1">>, <<"t","2">> }
tokenUser(token) == <<"u">> \o Tail(token)

\* the bodies GET /api/photos can answer with: the ids of the photos listed
ListPayloads == { <<>>, <<PhotoId(1)>>, <<PhotoId(1), PhotoId(2)>> }

\* a request of the hook: token is the authToken of the closure that sent it
LibraryRequest(kind, token, id) == [ kind |-> kind, token |-> token, id |-> id ]

\* normalizePhoto: the urls of the photo carry the authToken of the closure
normalizePhoto(authToken, id) == [ id |-> id, auth |-> authToken ]

\* clearAuth: the token leaves localStorage and the state, with the user, the
\* messages and the photos
clearAuth(lib) ==
    [ lib EXCEPT !.stored = <<>>, !.authToken = <<>>, !.authUser = <<>>,
                 !.authError = "", !.authErrorCode = "", !.authNotice = "",
                 !.photos = <<>> ]

\* the two effects, run with the callbacks of the render that holds lib.authToken:
\* refreshAuthUser and refreshPhotos each return at once without a token and send
\* their request with it
libraryEffects(lib) ==
    IF lib.authToken = <<>>
    THEN [ lib EXCEPT !.authUser = <<>>, !.photos = <<>> ]
    ELSE [ lib EXCEPT !.inflight = @ (+) SetToBag({ LibraryRequest("me", lib.authToken, <<>>),
                                                   LibraryRequest("list", lib.authToken, <<>>) }) ]

\* the hook after the render that follows a handler: refreshAuthUser and
\* refreshPhotos change identity when authToken changed, and their effects run
libraryRendered(before, after) ==
    IF after.authToken # before.authToken THEN libraryEffects(after) ELSE after

\* the page is opened: authToken is read from localStorage and both effects run
LibraryMounted(stored) ==
    libraryEffects([ NoLibrary EXCEPT !.stored = stored, !.authToken = stored ])

\* a response: its status, the token of a login response, the ids of a list
LibraryAnswer(status, token, payload) ==
    [ status |-> status, token |-> token, payload |-> payload ]

\* the responses the server can give to a request: requireAuth refuses a request
\* without a token; with one it is served, refused (expired) or fails
LibraryAnswers(req) ==
    IF req.kind = "login"
    THEN { LibraryAnswer(200, t, <<>>) : t \in LibraryTokens } \cup { LibraryAnswer(401, <<>>, <<>>) }
    ELSE IF req.kind = "register"
    THEN { LibraryAnswer(s, <<>>, <<>>) : s \in {201, 409} }
    ELSE IF req.token = <<>> THEN { LibraryAnswer(401, <<>>, <<>>) }
    ELSE { LibraryAnswer(s, <<>>, <<>>) : s \in {401, 500} }
         \cup IF req.kind = "list"
              THEN { LibraryAnswer(200, <<>>, ids) : ids \in ListPayloads }
              ELSE { LibraryAnswer(IF req.kind = "upload" THEN 201 ELSE
                                   IF req.kind = "delete" THEN 204 ELSE 200, <<>>, <<>>) }

\* the hook after the response to req arrived, req taken out of inflight already:
\* the continuation of refreshAuthUser, refreshPhotos, addPhotos, removePhoto,
\* login or register after its await
librarySettled(lib, req, status, token, payload) ==
    LET ok == status \in 200..299
        down == [ lib EXCEPT !.isDatabaseDown = TRUE ]
        healthy == [ lib EXCEPT !.isDatabaseDown = FALSE ]
    IN  CASE req.kind = "me" ->
                 IF status = 401 THEN clearAuth(lib)
                 ELSE IF ~ok THEN lib
                 ELSE [ lib EXCEPT !.authUser = tokenUser(req.token) ]
          [] req.kind = "list" ->
                 IF status = 401 THEN [ clearAuth(lib) EXCEPT !.isDatabaseDown = TRUE ]
                 ELSE IF ~ok THEN down
                 ELSE [ healthy EXCEPT
                          !.photos = [ i \in 1..Len(payload) |->
                                         normalizePhoto(req.token, payload[i]) ] ]
          [] req.kind = "upload" ->
                 IF status = 401 THEN [ clearAuth(lib) EXCEPT !.isDatabaseDown = TRUE ]
                 ELSE IF ~ok THEN down
                 ELSE IF req.token = <<>> THEN [ healthy EXCEPT !.photos = <<>> ]
                 ELSE [ healthy EXCEPT
                          !.inflight = @ (+) SetToBag({ LibraryRequest("list", req.token, <<>>) }) ]
          [] req.kind = "delete" ->
                 IF status = 401 THEN [ clearAuth(lib) EXCEPT !.isDatabaseDown = TRUE ]
                 ELSE IF ~ok THEN down
                 ELSE [ healthy EXCEPT
                          !.photos = SelectSeq(@, LAMBDA photo : photo.id # req.id) ]
          [] req.kind = "login" ->
                 IF ~ok
                 THEN [ lib EXCEPT !.authError = "Invalid credentials",
                                   !.authErrorCode = "INVALID_PASSWORD" ]
                 ELSE [ lib EXCEPT !.stored = token, !.authToken = token,
                                   !.authUser = tokenUser(token),
                                   !.isDatabaseDown = FALSE,
                                   !.authNotice = "Welcome back" ]
          [] OTHER ->
                 IF ~ok
                 THEN [ lib EXCEPT !.authError = "User already exists",
                                   !.authErrorCode = "USER_EXISTS" ]
                 ELSE [ lib EXCEPT !.authNotice = "Account created successfully." ]

\* a handler sends its request while fewer than MaxInflight are on their way
LibrarySends(lib, req) ==
    /\ BagCardinality(lib.inflight) < MaxInflight
    /\ library' = [ lib EXCEPT !.inflight = @ (+) SetToBag({req}) ]

serverVars ==
    <<phase, legacyFile, users, storesByUserId, now, tokens, res, probe,
      provisioned, photos, uploadsDir, upload, out, recon, fresh>>

\* login(loginId, password) or register(loginId, password) is called
LibraryAuthCall(kind) ==
    /\ LibrarySends([ library EXCEPT !.authError = "", !.authErrorCode = "",
                                     !.authNotice = "" ],
                    LibraryRequest(kind, <<>>, <<>>))
    /\ UNCHANGED <<serverVars, pinchGrid>>

\* logout()
LibraryLogout ==
    /\ library' = libraryRendered(library, clearAuth(library))
    /\ UNCHANGED <<serverVars, pinchGrid>>

\* refreshPhotos() is called by the page
LibraryRefreshPhotos ==
    /\ IF library.authToken = <<>>
       THEN library' = [ library EXCEPT !.photos = <<>> ]
       ELSE LibrarySends(library, LibraryRequest("list", library.authToken, <<>>))
    /\ UNCHANGED <<serverVars, pinchGrid>>

\* addPhotos(files) with at least one image file
LibraryAddPhotos ==
    /\ LibrarySends(library, LibraryRequest("upload", library.authToken, <<>>))
    /\ UNCHANGED <<serverVars, pinchGrid>>

\* removePhoto(id)
LibraryRemovePhoto(id) ==
    /\ LibrarySends(library, LibraryRequest("delete", library.authToken, id))
    /\ UNCHANGED <<serverVars, pinchGrid>>

\* the response to a request in flight arrives
LibrarySettles ==
    /\ \E req \in BagToSet(library.inflight) :
         \E answer \in LibraryAnswers(req) :
           LET lib == [ library EXCEPT !.inflight = @ (-) SetToBag({req}) ]
               after == libraryRendered(lib, librarySettled(lib, req, answer.status,
                                                             answer.token, answer.payload))
           IN  /\ BagCardinality(after.inflight) <= MaxInflight
               /\ library' = after
    /\ UNCHANGED <<serverVars, pinchGrid>>

\* the server as the module load finds it, untouched by the client model
ServerAtRest ==
    /\ phase = "boot"
    /\ legacyFile = [ kind |-> "absent", entries |-> <<>> ]
    /\ users = <<>>
    /\ storesByUserId = {}
    /\ now = 0
    /\ tokens = {}
    /\ res = NoRequest
    /\ probe = NoProbe
    /\ provisioned = <<>>
    /\ InitRealm({EmptyRealm})

\* the page is opened in a browser that holds a token, or none, in localStorage
InitLibrary ==
    /\ ServerAtRest
    /\ pinchGrid = NoPinchGrid
    /\ library \in { LibraryMounted(stored) : stored \in {<<>>} \cup LibraryTokens }

NextLibrary ==
    \/ \E kind \in {"login", "register"} : LibraryAuthCall(kind)
    \/ LibraryLogout
    \/ LibraryRefreshPhotos
    \/ LibraryAddPhotos
    \/ \E id \in { PhotoId(1), PhotoId(2) } : LibraryRemovePhoto(id)
    \/ LibrarySettles

SpecLibrary == InitLibrary /\ [][NextLibrary]_vars

----------------------------------------------------------------------------
(* The client: the usePinchGrid hook. Scales are counted in hundredths     *)

SIZE_PRESETS == <<2, 4, 6, 8>>

\* the accumulated scale a step needs to exceed: 0.3
PinchStep == 30

Max(a, b) == IF a >= b THEN a ELSE b
Min(a, b) == IF a <= b THEN a ELSE b

\* a setPresetByIndex that stores what it is given
setPresetByIndexRaw(idx) == idx

\* setPresetByIndex: the index stored
setPresetByIndex(idx) == Max(0, Min(Len(SIZE_PRESETS) - 1, idx))

\* onPinch: presetIndex and lastScale.current after the call
onPinch(presetIndex, lastScale, delta, first) ==
    LET current == (IF first THEN 0 ELSE lastScale) + delta
    IN  IF current > PinchStep
        THEN [ presetIndex |-> Max(0, presetIndex - 1), lastScale |-> 0 ]
        ELSE IF current < -PinchStep
        THEN [ presetIndex |-> Min(Len(SIZE_PRESETS) - 1, presetIndex + 1), lastScale |-> 0 ]
        ELSE [ presetIndex |-> presetIndex, lastScale |-> current ]

\* the scale changes one touch move or wheel event can report, and the indexes a
\* caller can pass
PinchDeltas == { -70, -31, -16, -3, 0, 3, 16, 31, 70 }
PresetInputs == -2..(Len(SIZE_PRESETS) + 1)

\* onPinch({ delta, first }) is called: handleTouchStart passes first, handleTouchMove
\* and handleWheel a delta
OnPinch(delta, first) ==
    /\ LET r == onPinch(pinchGrid.presetIndex, pinchGrid.lastScale, delta, first)
       IN  pinchGrid' = [ presetIndex |-> r.presetIndex, lastScale |-> r.lastScale,
                          call |-> "onPinch", idx |-> 0, delta |-> delta, first |-> first,
                          was |-> pinchGrid.presetIndex ]
    /\ UNCHANGED <<serverVars, library>>

\* setPresetByIndex(idx) is called
SetPresetByIndex(idx) ==
    /\ pinchGrid' = [ pinchGrid EXCEPT !.presetIndex = setPresetByIndex(idx),
                                       !.call = "setPresetByIndex", !.idx = idx,
                                       !.delta = 0, !.first = FALSE,
                                       !.was = pinchGrid.presetIndex ]
    /\ UNCHANGED <<serverVars, library>>

\* usePinchGrid(initialIndex) with an index of SIZE_PRESETS
InitPinchGrid ==
    /\ ServerAtRest
    /\ library = NoLibrary
    /\ pinchGrid \in { [ NoPinchGrid EXCEPT !.presetIndex = i, !.was = i ] :
                         i \in 0..(Len(SIZE_PRESETS) - 1) }

NextPinchGrid ==
    \/ \E delta \in PinchDeltas, first \in BOOLEAN : OnPinch(delta, first)
    \/ \E idx \in PresetInputs : SetPresetByIndex(idx)

SpecPinchGrid == InitPinchGrid /\ [][NextPinchGrid]_vars

----------------------------------------------------------------------------
(* Everything together *)

Next ==
    \/ Boot
    \/ Listen
    \/ \E l \in LoginIds, p \in Passwords : Login(l, p)
    \/ \E l \in LoginIds, p \in Passwords : Register(l, p)
    \/ ClientKeepsToken
    \/ \E op \in PhotoOps, sent \in { t.token : t \in tokens } \cup {<<>>} :
         AuthorizedRequest(op, sent)
    \/ \E op \in PhotoOps, req \in { Req(h, q) : h, q \in { t.token : t \in tokens } \cup {<<>>} } :
         GatedRequest(op, req)
    \/ \E req \in { Req(h, q) : h, q \in { t.token : t \in tokens } \cup {<<>>} } : Me(req)
    \/ \E batch \in Batches(UploadFiles, MaxBatch) : UploadStart(batch)
    \/ UploadConvertDone
    \/ UploadThumbDone
    \/ ListPhotos
    \/ \E id \in { PhotoId(k) : k \in 0..fresh } : DeletePhoto(id)
    \/ \E id \in { PhotoId(k) : k \in 0..fresh } : DownloadPhoto(id)
    \/ MigrationConvertDone
    \/ MigrationThumbDone
    \/ MigrationBackfillDone
    \/ \E id \in { PhotoId(k) : k \in 0..fresh }, k \in DeletePoints : DeletePhotoCrash(id, k)
    \/ \E failing \in SUBSET { users[i].id : i \in 1..Len(users) } : ListenFailing(failing)
    \/ \E i \in 1..Len(photos) : GetUpload(photos[i].filename)
    \/ \E i \in 1..Len(photos) : GetUpload(thumbnailFilenameFromOriginal(photos[i].filename))
    \/ \E i \in 1..Len(photos) : ThumbnailLost(photos[i].id)
    \/ Restart
    \/ Tick
    \/ \E kind \in {"login", "register"} : LibraryAuthCall(kind)
    \/ LibraryLogout
    \/ LibraryRefreshPhotos
    \/ LibraryAddPhotos
    \/ \E id \in { PhotoId(1), PhotoId(2) } : LibraryRemovePhoto(id)
    \/ LibrarySettles
    \/ \E delta \in PinchDeltas, first \in BOOLEAN : OnPinch(delta, first)
    \/ \E idx \in PresetInputs : SetPresetByIndex(idx)

Spec == Init /\ [][Next]_vars

----------------------------------------------------------------------------
(* The token service on its own: one token is issued, time passes, the     *)
(* token is verified; or one character of its signature is replaced first  *)

\* ids the credential store can hand to issueToken
ProbeUserIds ==
    { normalizeUserId(l) : l \in { x \in LoginIds : Len(Trim(x)) >= 3 } }
    \cup { <<"b","o","b">>, <<"a",".","b">>, <<"a","_","b">> }

\* the characters a tampered signature may receive: both base64 alphabets
TamperChars == Range(B64STD) \cup {"-", "_"}

\* issueToken(userId) at the current time
ProbeIssue(userId, uuid) ==
    /\ probe.token = <<>>
    /\ probe' = [ NoProbe EXCEPT !.userId = userId, !.issuedAt = now,
                                 !.token = issueToken(userId, now, uuid) ]
    /\ UNCHANGED <<phase, legacyFile, library, pinchGrid, users, storesByUserId, now, tokens,
                   res, provisioned>>
    /\ UNCHANGED realmVars

\* verifyToken(token) at the current time
ProbeVerify ==
    /\ probe.token # <<>>
    /\ probe' = [ probe EXCEPT !.verified = TRUE, !.checkedAt = now,
                               !.parsed = verifyToken(probe.token, now) ]
    /\ UNCHANGED <<phase, legacyFile, library, pinchGrid, users, storesByUserId, now, tokens,
                   res, provisioned>>
    /\ UNCHANGED realmVars

\* position of the "." that joins payload and signature
SignatureStart(token) == (CHOOSE i \in 1..Len(token) : token[i] = ".") + 1

\* one character of the signature segment is replaced by another one
ProbeTamper ==
    /\ probe.token # <<>>
    /\ ~probe.tampered
    /\ \E pos \in SignatureStart(probe.token)..Len(probe.token) :
       \E c \in TamperChars \ {probe.token[pos]} :
         probe' = [ probe EXCEPT !.token = [probe.token EXCEPT ![pos] = c],
                                 !.tampered = TRUE, !.verified = FALSE, !.parsed = {} ]
    /\ UNCHANGED <<phase, legacyFile, library, pinchGrid, users, storesByUserId, now, tokens,
                   res, provisioned>>
    /\ UNCHANGED realmVars

NextToken ==
    \/ \E u \in ProbeUserIds, uuid \in UuidValues : ProbeIssue(u, uuid)
    \/ ProbeVerify
    \/ Tick

SpecToken == Init /\ [][NextToken]_vars

TamperUserIds == { DEFAULT_USER_ID, <<"a","_","b">> }

NextTamper ==
    \/ \E u \in TamperUserIds, uuid \in UuidValues : ProbeIssue(u, uuid)
    \/ ProbeTamper
    \/ ProbeVerify

SpecTamper == InitWith({ f \in LegacyFiles : f.kind = "absent" }) /\ [][NextTamper]_vars

----------------------------------------------------------------------------
(* Sessions: a login, the token the client keeps, requests that carry it *)

AccessLoginIds == { DEFAULT_USER_ID, <<"a","b",".","9">> }

AccessPasswords == { DEFAULT_USER_PASSWORD }

NextAccess ==
    \/ Boot
    \/ Listen
    \/ \E l \in AccessLoginIds, p \in AccessPasswords : Login(l, p)
    \/ \E l \in AccessLoginIds, p \in AccessPasswords : Register(l, p)
    \/ ClientKeepsToken
    \/ \E op \in PhotoOps, sent \in { t.token : t \in tokens } \cup {<<>>} :
         AuthorizedRequest(op, sent)
    \/ Tick

SpecAccess == InitWith({ f \in LegacyFiles : f.kind = "absent" }) /\ [][NextAccess]_vars

\* the same with the clock standing still: what reaches getUserStore does not
\* depend on the time at which a valid token is presented
StoreLoginIds == AccessLoginIds \cup { <<"a","b","!">> }

NextStores ==
    \/ Boot
    \/ Listen
    \/ \E l \in StoreLoginIds, p \in AccessPasswords : Login(l, p)
    \/ \E l \in StoreLoginIds, p \in AccessPasswords : Register(l, p)
    \/ ClientKeepsToken
    \/ \E op \in PhotoOps, sent \in { t.token : t \in tokens } \cup {<<>>} :
         AuthorizedRequest(op, sent)

SpecStores == InitWith({ f \in LegacyFiles : f.kind = "absent" }) /\ [][NextStores]_vars

----------------------------------------------------------------------------
(* The gate: requests as they arrive, with the token in the Authorization  *)
(* header, in the query string, in both or in neither                      *)

\* a token whose signature segment starts with another character
BadlySigned(token) ==
    [ token EXCEPT ![SignatureStart(token)] = IF @ = "A" THEN "B" ELSE "A" ]

\* what a client may send as a token: one it holds (valid or expired by now), one
\* with a changed signature, text that is no token, nothing
RequestTokens(held) ==
    held \cup { BadlySigned(t) : t \in held } \cup { <<"x">>, <<>> }

RequestHeaders(held) ==
    { <<>> } \cup { BEARER \o c : c \in RequestTokens(held) }
             \cup { <<"b","e","a","r","e","r"," ">> \o t : t \in held }

RequestQueries(held) ==
    (RequestTokens(held) \ { <<"x">> }) \cup { <<" ">> \o t \o <<" ">> : t \in held }

Requests(held) ==
    { Req(h, q) : h \in RequestHeaders(held), q \in RequestQueries(held) }

\* a request is built from one of the tokens the client holds, or from none
OneHeld(held) == { {t.token} : t \in held } \cup { {} }

\* the requests without a query parameter: no header, or a Bearer header with a
\* held token, a badly signed one or text that is no token
SingleCarrier(held) ==
    { r \in Requests(held) :
        /\ r.auth = <<>>
        /\ r.authorization = <<>> \/ StartsWith(r.authorization, BEARER)
        /\ r.authorization # BEARER }

GateLoginIds == { DEFAULT_USER_ID }

\* every route behind requireAuth, while the clock runs past the expiry of tokens
NextGate ==
    \/ Boot
    \/ Listen
    \/ \E l \in GateLoginIds, p \in AccessPasswords : Login(l, p)
    \/ ClientKeepsToken
    \/ \E op \in PhotoOps, req \in UNION { SingleCarrier(h) : h \in OneHeld(tokens) } :
         GatedRequest(op, req)
    \/ \E req \in UNION { SingleCarrier(h) : h \in OneHeld(tokens) } : Me(req)
    \/ Tick

SpecGate == InitWith({ f \in LegacyFiles : f.kind = "absent" }) /\ [][NextGate]_vars

\* the same routes at one instant, the token in the header, in the query string,
\* in both or in neither
NextBearer ==
    \/ Boot
    \/ Listen
    \/ \E l \in GateLoginIds, p \in AccessPasswords : Login(l, p)
    \/ ClientKeepsToken
    \/ \E op \in PhotoOps, req \in UNION { Requests(h) : h \in OneHeld(tokens) } :
         GatedRequest(op, req)

SpecBearer == InitWith({ f \in LegacyFiles : f.kind = "absent" }) /\ [][NextBearer]_vars

----------------------------------------------------------------------------
(* Start of the process on a data directory with a users.json of an older  *)
(* version: import, default user, logins, and a restart on the same store  *)

Secret == <<"s","e","c","r","e","t">>

\* entries a users.json may hold: well-formed ones, ones whose id or username is
\* taken by the first once normalised or trimmed, ones with a field missing
StartupEntries ==
    LET hash == hashPassword(Secret, LegacySalt).hashHex
    IN  { LegacyEntry(<<"B","o","b">>, <<" ","b","o","b">>, LegacySalt, hash, 0),
          LegacyEntry(<<"z","e","d">>, <<"z","e","d">>, LegacySalt, hash, 1),
          LegacyEntry(<<"b","o","b">>, <<"b","o","b","b","y">>, LegacySalt, hash, 0),
          LegacyEntry(<<"a","l">>, <<"b","o","b">>, LegacySalt, hash, 0),
          LegacyEntry(<<>>, <<"i","d","a">>, LegacySalt, hash, 0),
          LegacyEntry(<<"u","n","a">>, <<>>, LegacySalt, hash, 0),
          LegacyEntry(<<"s","a","l">>, <<"s","a","l">>, <<>>, hash, 0),
          LegacyEntry(<<"e","v","e">>, <<"e","v","e">>, LegacySalt, <<>>, 0) }

\* the lists of at most MaxLegacy different entries
StartupLists ==
    UNION { { l \in [1..n -> StartupEntries] : \A i, j \in 1..n : i # j => l[i] # l[j] } :
            n \in 0..MaxLegacy }

StartupLegacyFiles ==
    { f \in LegacyFiles : f.kind # "array" }
        \cup { [kind |-> "array", entries |-> l] : l \in StartupLists }

\* module load and app.listen on each of these files, then the same again on the
\* store they left
NextImport ==
    \/ Boot
    \/ Listen
    \/ Restart

SpecImport == InitWith(StartupLegacyFiles) /\ [][NextImport]_vars

StartupLogins ==
    { <<DEFAULT_USER_ID, DEFAULT_USER_PASSWORD>>, <<DEFAULT_USER_ID, Secret>>,
      <<<<"b","o","b">>, Secret>> }

NextStartup ==
    \/ Boot
    \/ Listen
    \/ \E c \in StartupLogins : Login(c[1], c[2])
    \/ ClientKeepsToken
    \/ \E t \in tokens : Me(Req(BEARER \o t.token, <<>>))
    \/ Restart

SpecStartup == InitWith(LegacyFiles) /\ [][NextStartup]_vars

----------------------------------------------------------------------------
(* Credential store alone: boot, then logins and registrations *)

CredLegacyFiles == { f \in LegacyFiles : f.kind \in {"absent", "array"} }

CredLoginIds == LoginIds \ { <<"a","b",".","9">> }

InitCred == InitWith(CredLegacyFiles)

NextCred ==
    \/ Boot
    \/ Listen
    \/ \E l \in CredLoginIds, p \in Passwords : Login(l, p)
    \/ \E l \in CredLoginIds, p \in Passwords : Register(l, p)

SpecCred == InitCred /\ [][NextCred]_vars

----------------------------------------------------------------------------
(* Uploads into an empty realm *)

NextUpload ==
    \/ Boot
    \/ Listen
    \/ \E batch \in Batches(UploadFiles, MaxBatch) : UploadStart(batch)
    \/ UploadConvertDone
    \/ UploadThumbDone
    \/ ListPhotos

SpecUpload == InitWith({ f \in LegacyFiles : f.kind = "absent" }) /\ [][NextUpload]_vars

----------------------------------------------------------------------------
(* One realm left by an earlier version of the server, over two starts *)

\* rows an earlier version stored as they were uploaded
LegacyPhotos ==
    << PhotoRow(<<"l","1">>, <<"x",".","h","e","i","c">>,
                <<"1","-","q","1",".","h","e","i","c">>,
                <<"i","m","a","g","e","/","h","e","i","c">>, 1),
       PhotoRow(<<"l","2">>, <<"y">>,
                <<"1","-","q","2",".","H","E","I","F">>,
                <<"i","m","a","g","e","/","h","e","i","f">>, 1),
       PhotoRow(<<"l","3">>, <<"z",".","p","n","g">>,
                <<"2","-","q","3",".","p","n","g">>,
                <<"i","m","a","g","e","/","p","n","g">>, 2) >>

\* what the uploads directory may hold for a row: nothing, or the asset (decodable
\* or not), with or without its thumbnail
LegacyFilesOf(row) ==
    LET thumb == File(thumbnailFilenameFromOriginal(row.filename), TRUE)
    IN  { {}, {thumb},
          {File(row.filename, TRUE)}, {File(row.filename, TRUE), thumb},
          {File(row.filename, FALSE)}, {File(row.filename, FALSE), thumb} }

\* a row is there with one of these directory contents, or it is not there
LegacyChoices(row) ==
    { [ rows |-> <<>>, files |-> {} ] }
        \cup { [ rows |-> <<row>>, files |-> fs ] : fs \in LegacyFilesOf(row) }

LegacyRealms ==
    { [ photos |-> a.rows \o b.rows \o c.rows,
        files |-> a.files \cup b.files \cup c.files ] :
        a \in LegacyChoices(LegacyPhotos[1]), b \in LegacyChoices(LegacyPhotos[2]),
        c \in LegacyChoices(LegacyPhotos[3]) }

\* realms the requests are followed on: an empty one, and two an earlier version
\* left, from which files were removed since; their thumbnails are all there, so
\* that the media migration has nothing to do on them
StartRealms ==
    LET heic == LegacyPhotos[1]
        png == LegacyPhotos[3]
        Thumb(row) == File(thumbnailFilenameFromOriginal(row.filename), TRUE)
    IN  { EmptyRealm,
          [ photos |-> <<heic, png>>,
            files |-> { Thumb(heic), File(png.filename, TRUE), Thumb(png) } ],
          [ photos |-> <<heic, png>>, files |-> { Thumb(heic), Thumb(png) } ] }

\* the files of the requests followed on these realms
RealmUploadFiles ==
    { f \in UploadFiles : f.ok /\ f.originalname[1] = "a" }

\* ids a delete or a download may name: one never drawn, every id drawn so far,
\* and the ids of the rows found at the start
RequestIds ==
    { PhotoId(k) : k \in 0..fresh } \cup { LegacyPhotos[i].id : i \in 1..Len(LegacyPhotos) }

InitRealmRequests ==
    InitAuth({ f \in LegacyFiles : f.kind = "absent" }) /\ InitRealm(StartRealms)

NextRealm ==
    \/ Boot
    \/ Listen
    \/ \E batch \in Batches(RealmUploadFiles, MaxBatch) : UploadStart(batch)
    \/ UploadThumbDone
    \/ ListPhotos
    \/ \E id \in RequestIds : DeletePhoto(id)
    \/ \E id \in RequestIds : DownloadPhoto(id)

SpecRealm == InitRealmRequests /\ [][NextRealm]_vars

InitRecon == InitAuth({ f \in LegacyFiles : f.kind = "absent" }) /\ InitRealm(LegacyRealms)

NextRecon ==
    \/ Boot
    \/ Listen
    \/ MigrationConvertDone
    \/ MigrationThumbDone
    \/ MigrationBackfillDone
    \/ Restart

SpecRecon == InitRecon /\ [][NextRecon]_vars

\* every await of the media migration is a promise of sharp, which settles when
\* the worker thread is done; the event loop then runs the continuation
CatchUpFairness ==
    /\ WF_vars(MigrationConvertDone)
    /\ WF_vars(MigrationThumbDone)
    /\ WF_vars(MigrationBackfillDone)

\* the media migration of two starts with no request served, every settled await
\* followed by its continuation
SpecCatchUp == InitRecon /\ [][NextRecon]_vars /\ CatchUpFairness

\* realms an earlier version left in which every row has its file, decodable or
\* not, with or without its thumbnail
SoundRealms ==
    { r \in LegacyRealms :
        \A i \in 1..Len(r.photos) : existsSync(r.files, r.photos[i].filename) }

\* ids of the rows an earlier version left
LegacyIds == { LegacyPhotos[i].id : i \in 1..Len(LegacyPhotos) }

InitSweep == InitAuth({ f \in LegacyFiles : f.kind = "absent" }) /\ InitRealm(SoundRealms)

\* the media migration of a start, with requests of the realm's user served
\* between its awaits
NextSweep ==
    \/ Boot
    \/ Listen
    \/ MigrationConvertDone
    \/ MigrationThumbDone
    \/ MigrationBackfillDone
    \/ ListPhotos
    \/ \E id \in LegacyIds : DeletePhoto(id)
    \/ \E id \in LegacyIds : DownloadPhoto(id)

SpecSweep == InitSweep /\ [][NextSweep]_vars

\* the same, with deletes in which the process dies
NextRemove ==
    \/ Boot
    \/ Listen
    \/ MigrationConvertDone
    \/ MigrationThumbDone
    \/ MigrationBackfillDone
    \/ \E id \in LegacyIds : DeletePhoto(id)
    \/ \E id \in LegacyIds, k \in DeletePoints : DeletePhotoCrash(id, k)

SpecRemove == InitSweep /\ [][NextRemove]_vars

\* the names a GET /uploads/:filename may ask for: the assets and the thumbnails
\* of the rows
UploadNames ==
    UNION { { LegacyPhotos[i].filename,
              thumbnailFilenameFromOriginal(LegacyPhotos[i].filename) } :
            i \in 1..Len(LegacyPhotos) }

\* realms in which every row has a file that sharp can read
ReadableRealms ==
    { r \in SoundRealms : \A i \in 1..Len(r.photos) : sharpReads(r.files, r.photos[i].filename) }

InitReads == InitAuth({ f \in LegacyFiles : f.kind = "absent" }) /\ InitRealm(ReadableRealms)

\* a request that was sent is answered, and the awaits of the migration settle
ReadFairness ==
    /\ CatchUpFairness
    /\ WF_vars(ListPhotos)
    /\ WF_vars(\E name \in UploadNames : GetUpload(name))

\* reads of a realm on which the media migration runs and thumbnails get lost
NextReads ==
    \/ Boot
    \/ Listen
    \/ MigrationConvertDone
    \/ MigrationThumbDone
    \/ MigrationBackfillDone
    \/ ListPhotos
    \/ \E name \in UploadNames : GetUpload(name)
    \/ \E id \in LegacyIds : ThumbnailLost(id)

SpecReads == InitReads /\ [][NextReads]_vars /\ ReadFairness

\* entries of users.json whose ids need normalising (to bob, bo, user, a, .., a-b)
\* and whose usernames differ in letter case only
UserEntries ==
    LET hash == hashPassword(Secret, LegacySalt).hashHex
    IN  { LegacyEntry(<<"B","o","b">>, <<" ","b","o","b">>, LegacySalt, hash, 0),
          LegacyEntry(<<"b","o">>, <<"B","O","B">>, LegacySalt, hash, 0),
          LegacyEntry(<<"!","!">>, <<"z","e","d">>, LegacySalt, hash, 0),
          LegacyEntry(<<"-","-","A","-","-">>, <<"a","m","y">>, LegacySalt, hash, 0),
          LegacyEntry(<<".",".">>, <<"d","o","t">>, LegacySalt, hash, 0),
          LegacyEntry(<<"a"," ","/","b">>, <<"a","b","e">>, LegacySalt, hash, 0) }

\* no users.json, or one with up to two of these entries
UserLegacyFiles ==
    { [kind |-> "absent", entries |-> <<>>] }
        \cup { [kind |-> "array", entries |-> l] :
                 l \in UNION { { l \in [1..n -> UserEntries] :
                                     \A i, j \in 1..n : i # j => l[i] # l[j] } :
                               n \in 1..2 } }

\* usernames of registrations: new ones, ones that differ from a stored username
\* in letter case, ones whose id is taken or needs normalising
UserLoginIds ==
    { <<"A","d","m","i","n">>, <<"a","d","m","i","n","!","!">>, <<"b","o","b">>,
      <<"U","s","e","r">>, <<"a","_","b",".","9">>, <<".",".","/">> }

\* the credential store over its life: import, default provisioning,
\* registrations, and starts of the process on the store that is there
NextUsers ==
    \/ Boot
    \/ Listen
    \/ \E l \in UserLoginIds : Register(l, Secret)
    \/ Restart

SpecUsers == InitWith(UserLegacyFiles) /\ [][NextUsers]_vars

\* users.json of an earlier version with the default user and two more users,
\* whose createdAt order is not the order of the list
IsolationEntries ==
    LET hash == hashPassword(Secret, LegacySalt).hashHex
    IN  [ admin |-> LegacyEntry(DEFAULT_USER_ID, DEFAULT_USER_ID, LegacySalt, hash, 2),
          bob |-> LegacyEntry(<<"b","o","b">>, <<"b","o","b">>, LegacySalt, hash, 1),
          zed |-> LegacyEntry(<<"z","e","d">>, <<"z","e","d">>, LegacySalt, hash, 3) ]

IsolationLegacyFiles ==
    LET e == IsolationEntries
    IN  { [kind |-> "absent", entries |-> <<>>] }
            \cup { [kind |-> "array", entries |-> l] :
                     l \in { <<e.admin>>, <<e.admin, e.bob>>, <<e.zed, e.admin>>,
                             <<e.admin, e.bob, e.zed>>, <<e.zed, e.bob>> } }

\* the users whose realm may fail to be provisioned at a start
IsolationIds == { normalizeUserId(DEFAULT_USER_ID), <<"b","o","b">>, <<"z","e","d">> }

InitIsolation == InitAuth(IsolationLegacyFiles) /\ InitRealm(SoundRealms)

\* starts of the process with provisioning failures, and the media migration
NextIsolation ==
    \/ Boot
    \/ \E failing \in SUBSET IsolationIds : ListenFailing(failing)
    \/ MigrationConvertDone
    \/ MigrationThumbDone
    \/ MigrationBackfillDone

SpecIsolation == InitIsolation /\ [][NextIsolation]_vars

----------------------------------------------------------------------------
(* Properties *)

\* a step that answers a login, a registration
LoginStep == res' # res /\ res'.op = "login"
RegisterStep == res' # res /\ res'.op = "register"

MatchesLogin(row, loginId) ==
    \/ ToLowerCase(row.username) = ToLowerCase(loginId)
    \/ ToLowerCase(row.id) = ToLowerCase(loginId)

PasswordOf(row, password) ==
    row.password_hash = scryptSync(password, row.password_salt, SCRYPT_KEYLEN)

\* C1: in a store built by default provisioning and registrations, a login with
\* the username and the password of a registered user succeeds and returns the
\* id that the registration assigned to that user.
C1_RegisterThenAuthenticate ==
    (legacyFile.kind = "absent" /\ res.op = "login") =>
        \A i \in 2..Len(users) :
            (users[i].username = Trim(res.loginId) /\ PasswordOf(users[i], res.password))
                => (res.status = 200 /\ \E d \in res.user : d.id = users[i].id)

\* C2: a token issued for user id u verifies to userId = u up to its expiry
\* (issue time + TTL) and verifies to null after it.
C2_IssueVerifyRoundTrip ==
    (probe.verified /\ ~probe.tampered) =>
        IF probe.checkedAt <= probe.issuedAt + TOKEN_TTL_MS
        THEN probe.parsed # {} /\ \A r \in probe.parsed : r.userId = probe.userId
        ELSE probe.parsed = {}

\* C3: a request that carries the token the client got at the login of user u,
\* and that is let through, acts on the realm keyed by u and on no other.
C3_NoCrossRealmAccess ==
    (res.op \in PhotoOps /\ res.status # 401) =>
        \A t \in tokens : t.token = res.sent => res.realm = {t.owner}

\* C4: a correctly signed token is refused whenever the time of the check is at
\* or after its expiry (issue time + TTL), the expiry instant included.
C4_RefusedFromExpiryOn ==
    (probe.verified /\ ~probe.tampered
        /\ probe.checkedAt >= probe.issuedAt + TOKEN_TTL_MS)
        => probe.parsed = {}

\* C5: a login (both fields present) whose loginId matches no user is answered
\* USER_NOT_FOUND; one whose loginId matches a user whose password is another one
\* is answered INVALID_PASSWORD; a failed login returns no token, provisions no
\* realm and leaves the credential store as it was.
C5_LoginFailureKinds ==
    [][ (LoginStep /\ Trim(res'.loginId) # <<>> /\ res'.password # <<>>) =>
          LET loginId == Trim(res'.loginId)
              matched == { i \in 1..Len(users) : MatchesLogin(users[i], loginId) }
          IN  /\ matched = {} => (res'.status = 404 /\ res'.code = "USER_NOT_FOUND")
              /\ (\E i \in matched : ~PasswordOf(users[i], res'.password))
                    => (res'.status = 401 /\ res'.code = "INVALID_PASSWORD")
              /\ res'.status # 200 =>
                    (res'.token = <<>> /\ storesByUserId' = storesByUserId
                        /\ users' = users) ]_vars

\* C6: a token whose signature segment had one character replaced by another
\* verifies to null.
C6_TamperedSignatureRefused ==
    (probe.tampered /\ probe.verified) => probe.parsed = {}

IdsDistinct ==
    \A i, j \in 1..Len(users) : i # j => users[i].id # users[j].id

IdTaken(us, id) == \E i \in 1..Len(us) : us[i].id = id

Suffixed(b, n) == b \o <<"-">> \o NumberToString(n)

\* b when b is free, else b-N for the least N >= 2 with b-N free
LeastFreeId(us, b) ==
    IF ~IdTaken(us, b) THEN b
    ELSE Suffixed(b, CHOOSE n \in 2..(Len(us) + 2) :
                        /\ ~IdTaken(us, Suffixed(b, n))
                        /\ \A m \in 2..(n - 1) : IdTaken(us, Suffixed(b, m)))

\* C7: user ids are pairwise distinct, and a successful registration appends one
\* user whose id is the normalized base id b when b is free, else b-N for the
\* smallest N >= 2 for which b-N is free.
C7_DistinctSuffixedIds ==
    /\ []IdsDistinct
    /\ [][ (RegisterStep /\ res'.status = 201) =>
             /\ Len(users') = Len(users) + 1
             /\ SubSeq(users', 1, Len(users)) = users
             /\ users'[Len(users')].id =
                  LeastFreeId(users, normalizeUserId(Trim(res'.loginId))) ]_vars

\* "Admin" then "admin!!" were registered and got the ids admin and admin-2
C7_Witness ==
    \E i, j \in 1..Len(users) :
        /\ i < j
        /\ users[i].username = <<"A","d","m","i","n">>
        /\ users[i].id = <<"a","d","m","i","n">>
        /\ users[j].username = <<"a","d","m","i","n","!","!">>
        /\ users[j].id = <<"a","d","m","i","n","-","2">>

\* C8: a registration whose trimmed username has fewer than 3 characters, whose
\* password has fewer than 6, or with a field missing, is rejected (400) and
\* leaves the credential store and the realm cache unchanged.
C8_InvalidRegistrationRejected ==
    [][ (RegisterStep /\ (Len(Trim(res'.loginId)) < 3 \/ Len(res'.password) < 6)) =>
          /\ res'.status = 400
          /\ res'.user = {}
          /\ users' = users
          /\ storesByUserId' = storesByUserId ]_vars

\* a registration with a username of two characters after trimming was rejected
C8_Witness ==
    /\ res.op = "register"
    /\ res.status = 400
    /\ Len(res.loginId) > 2
    /\ Len(Trim(res.loginId)) = 2
    /\ Len(res.password) >= 6

UsernameExists(us, loginId) ==
    \E i \in 1..Len(us) : ToLowerCase(us[i].username) = ToLowerCase(loginId)

StoreHandle(log, userId) ==
    IF \E i \in 1..Len(log) : log[i] = userId
    THEN CHOOSE i \in 1..Len(log) :
            log[i] = userId /\ \A j \in (i + 1)..Len(log) : log[j] # userId
    ELSE 0

\* C11: whatever the order in which app.listen, register, login and the photo
\* requests first reach a user id, createStoreForUser ran exactly once for every id
\* of the cache and for no other id; no step removes an id from the cache, and
\* every later getUserStore of a cached id answers the handle of that one call.
C11_OneRealmPerUserId ==
    /\ [](/\ \A i, j \in 1..Len(provisioned) : i # j => provisioned[i] # provisioned[j]
          /\ Range(provisioned) = storesByUserId)
    /\ [][ /\ storesByUserId \subseteq storesByUserId'
           /\ \A u \in storesByUserId :
                StoreHandle(provisioned', u) = StoreHandle(provisioned, u) ]_vars

\* a user that registration provisioned a realm for has logged in: the second
\* access to that id, by another caller, and still one realm
C11_Witness ==
    /\ res.op = "login"
    /\ res.status = 200
    /\ \E d \in res.user :
          /\ d.id # RealmUser
          /\ res.realm = {d.id}
          /\ StoreHandle(provisioned, d.id) > 0

\* the file the upload loop has in hand
FileInHand(up) == up.batch[up.i]

\* steps of one upload: a row is inserted; the awaited thumbnail settles; the
\* awaited conversion settles with success
InsertStep == upload'.stage = "thumb" /\ upload'.inserted # upload.inserted
ThumbStep == upload.stage = "thumb" /\ upload' # upload
ConvertedStep == upload.stage = "convert" /\ upload'.stage = "thumb"

RowsWithId(ph, id) == { i \in 1..Len(ph) : ph[i].id = id }

\* C12: the ingest of a file that is not HEIC appends exactly one row, whose mime
\* type is the declared one and whose stored filename has the extension of the
\* original name; when its thumbnail derivation succeeds the file
\* thumb-<stored filename without extension>.webp is in the uploads directory, and
\* the file still has exactly one row.
C12_NonHeicIngest ==
    [][ /\ (InsertStep /\ ~isHeicLike(FileInHand(upload').originalname,
                                       FileInHand(upload').mimetype)) =>
              LET file == FileInHand(upload')
                  row == photos'[Len(photos')]
              IN  /\ Len(photos') = Len(photos) + 1
                  /\ SubSeq(photos', 1, Len(photos)) = photos
                  /\ RowsWithId(photos, row.id) = {}
                  /\ row.mime_type = file.mimetype
                  /\ row.name = file.originalname
                  /\ extname(row.filename) = extname(file.originalname)
                  /\ existsSync(uploadsDir', row.filename)
        /\ (ThumbStep /\ ~isHeicLike(FileInHand(upload).originalname,
                                      FileInHand(upload).mimetype)) =>
              LET row == upload.cur
                  base == SubSeq(row.filename, 1, Len(row.filename) - Len(extname(row.filename)))
              IN  /\ Cardinality(RowsWithId(photos, row.id)) = 1
                  /\ Cardinality(RowsWithId(photos', row.id)) = 1
                  /\ sharpReads(uploadsDir, row.filename) =>
                        existsSync(uploadsDir', STR_THUMB \o base \o STR_WEBP) ]_vars

\* a.png was ingested: its row is there, with its thumbnail
C12_Witness ==
    /\ out.op = "upload"
    /\ out.status = 201
    /\ \E i \in 1..Len(photos) :
          /\ photos[i].name = <<"a",".","p","n","g">>
          /\ photos[i].id \in Range(out.inserted)
          /\ extname(photos[i].filename) = <<".","p","n","g">>
          /\ existsSync(uploadsDir, thumbnailFilenameFromOriginal(photos[i].filename))

\* C13: when the conversion of a file detected as HEIC/HEIF (by the extension of
\* its original name or by its declared mime type) succeeds, one row is appended
\* whose stored filename and display name end in .jpg and whose mime type is
\* image/jpeg, and from then on, the end of the ingest of that file included, no
\* file under the raw stored name is in the uploads directory.
C13_HeicIngest ==
    [][ /\ ConvertedStep =>
              LET file == FileInHand(upload)
                  row == photos'[Len(photos')]
              IN  /\ isHeicLike(file.originalname, file.mimetype)
                  /\ Len(photos') = Len(photos) + 1
                  /\ SubSeq(photos', 1, Len(photos)) = photos
                  /\ row.id = file.id
                  /\ EndsWith(row.filename, STR_JPG)
                  /\ EndsWith(row.name, STR_JPG)
                  /\ row.mime_type = MIME_JPEG
                  /\ existsSync(uploadsDir', row.filename)
                  /\ ~existsSync(uploadsDir', file.filename)
        /\ (ThumbStep /\ isHeicLike(FileInHand(upload).originalname,
                                     FileInHand(upload).mimetype)) =>
              ~existsSync(uploadsDir', FileInHand(upload).filename) ]_vars

\* c.HEIC was ingested as a JPEG
C13_Witness ==
    /\ out.op = "upload"
    /\ out.status = 201
    /\ \E i \in 1..Len(photos) :
          /\ photos[i].name = <<"c",".","j","p","g">>
          /\ photos[i].id \in Range(out.inserted)
          /\ photos[i].mime_type = MIME_JPEG
          /\ EndsWith(photos[i].filename, STR_JPG)
          /\ existsSync(uploadsDir, photos[i].filename)

\* the ids of the descriptors of a response, in their order
DescriptorIds(descriptors) == [ i \in 1..Len(descriptors) |-> descriptors[i].id ]

\* C14: when the conversion of one HEIC file of a batch fails, every other file of
\* the batch is still ingested (its row inserted, its descriptor returned) and the
\* failing file is the only one reported; whatever the position of that file.
C14_PerFileIsolation ==
    (out.op = "upload" /\ out.failed > 0) =>
        \A k \in 1..Len(out.batch) :
            k # out.failed =>
                /\ out.batch[k].id \in Range(out.inserted)
                /\ out.batch[k].id \in Range(DescriptorIds(out.photos))

\* C15: when the thumbnail derivation of an ingested file fails (no thumbnail file
\* for its row), the row stays, the upload answers 201 with a descriptor for the
\* file, and that descriptor, like the one of every later listing, has
\* thumbnailUrl equal to the url of the full asset.
C15_ThumbnailFailureNotFatal ==
    /\ [](out.op = "upload" =>
            \A k \in 1..Len(out.batch) :
                (/\ out.batch[k].id \in Range(out.inserted)
                 /\ \E i \in RowsWithId(photos, out.batch[k].id) :
                       ~existsSync(uploadsDir, thumbnailFilenameFromOriginal(photos[i].filename)))
                => /\ out.status = 201
                   /\ \E d \in Range(out.photos) :
                         d.id = out.batch[k].id /\ d.thumbnailUrl = d.url)
    /\ [][ (out'.op = "list" /\ out' # out) =>
             \A d \in Range(out'.photos) :
                \A i \in RowsWithId(photos, d.id) :
                    ~existsSync(uploadsDir, thumbnailFilenameFromOriginal(photos[i].filename))
                        => d.thumbnailUrl = d.url ]_vars

\* C16: the descriptors an upload returns are one per row that this request has
\* inserted, in the order of the files of the request.
C16_DescriptorPerInsertedRow ==
    out.op = "upload" => DescriptorIds(out.photos) = out.inserted

\* ids that some row has carried: those drawn by the uploads so far and those of
\* the rows found at the start
IdsEverUsed ==
    { PhotoId(k) : k \in 1..fresh } \cup { LegacyPhotos[i].id : i \in 1..Len(LegacyPhotos) }

\* C17: a delete of an id that has a row answers 204 and leaves no row with that
\* id, no asset file and no thumbnail file of that row, whether or not the files
\* were there, and touches no other row; a delete of an id that has no row (a
\* second delete of the same id among them) answers 404 "Photo not found" and
\* changes neither the table nor the uploads directory.
C17_DeleteRemovesRowAndFiles ==
    [][ (out'.op = "delete" /\ out' # out) =>
          IF getPhoto(photos, out'.id) # {}
          THEN /\ out'.status = 204
               /\ getPhoto(photos', out'.id) = {}
               /\ Range(photos') = Range(photos) \ getPhoto(photos, out'.id)
               /\ \A r \in getPhoto(photos, out'.id) :
                     /\ ~existsSync(uploadsDir', r.filename)
                     /\ ~existsSync(uploadsDir', thumbnailFilenameFromOriginal(r.filename))
                     /\ uploadsDir' \subseteq uploadsDir
               /\ \A r \in Range(photos') :
                     /\ existsSync(uploadsDir, r.filename) => existsSync(uploadsDir', r.filename)
                     /\ existsSync(uploadsDir, thumbnailFilenameFromOriginal(r.filename))
                          => existsSync(uploadsDir', thumbnailFilenameFromOriginal(r.filename))
          ELSE /\ out'.status = 404
               /\ out'.error = "Photo not found"
               /\ photos' = photos
               /\ uploadsDir' = uploadsDir ]_vars

\* a second delete of the row x.heic, whose asset file was missing at the first
\* delete, has answered 404
C17_Witness ==
    /\ out.op = "delete"
    /\ out.status = 404
    /\ out.id = LegacyPhotos[1].id
    /\ Len(photos) > 0
    /\ getPhoto(photos, out.id) = {}
    /\ ~existsSync(uploadsDir, thumbnailFilenameFromOriginal(LegacyPhotos[1].filename))

\* C18: a listing answers with one descriptor per row of the table and no other,
\* each the descriptor of its row, in an order of non-increasing addedAt.
C18_ListNewestFirst ==
    [][ (out'.op = "list" /\ out' # out) =>
          /\ out'.status = 200
          /\ Len(out'.photos) = Len(photos)
          /\ Range(out'.photos)
                = { photoToResponse(uploadsDir, r, AuthToken) : r \in Range(photos) }
          /\ \A i, j \in 1..Len(out'.photos) :
                i < j => out'.photos[i].addedAt >= out'.photos[j].addedAt ]_vars

\* a listing after an ingest and a delete: two rows of different creation times,
\* one of them uploaded, and a row of the start gone
C18_Witness ==
    /\ out.op = "list"
    /\ Len(out.photos) = 2
    /\ out.photos[1].addedAt > out.photos[2].addedAt
    /\ \E d \in Range(out.photos) : d.id = PhotoId(1)
    /\ \E id \in IdsEverUsed : getPhoto(photos, id) = {} /\ id = LegacyPhotos[1].id

\* C19: a download answers 404 "Photo not found" when the id has no row, 404 "File
\* missing on disk" when it has a row whose file is not in the uploads directory,
\* and the file of the row otherwise; the table and the uploads directory are left
\* as they were in all three cases.
C19_DownloadOutcomes ==
    [][ (out'.op = "download" /\ out' # out) =>
          /\ photos' = photos
          /\ uploadsDir' = uploadsDir
          /\ IF getPhoto(photos, out'.id) = {}
             THEN out'.status = 404 /\ out'.error = "Photo not found"
             ELSE \A r \in getPhoto(photos, out'.id) :
                    IF existsSync(uploadsDir, r.filename)
                    THEN out'.status = 200 /\ out'.file = r.filename
                    ELSE out'.status = 404 /\ out'.error = "File missing on disk" ]_vars

\* a download of a row whose file is gone has answered "File missing on disk"
C19_Witness ==
    /\ out.op = "download"
    /\ out.error = "File missing on disk"
    /\ \E r \in getPhoto(photos, out.id) : ~existsSync(uploadsDir, r.filename)

\* C20: once the media migration (HEIC sweep, then thumbnail backfill) has run to
\* its end, the run that the next start of the server makes, with no request in
\* between, changes neither the photos table nor the uploads directory and makes
\* no write at all, a rewrite of a file with the same content included.
C20_SecondRunWritesNothing ==
    [][ recon'.run >= 2 =>
          /\ photos' = photos
          /\ uploadsDir' = uploadsDir
          /\ recon'.writes = 0 ]_vars

\* a second run is over on a realm where the first run converted x.heic and where
\* the undecodable file of row y is still there for the sweep to try again
C20_Witness ==
    /\ recon.run = 2
    /\ recon.stage = "done"
    /\ \E r \in getPhoto(photos, LegacyPhotos[1].id) :
          /\ r.mime_type = MIME_JPEG
          /\ EndsWith(r.filename, STR_JPG)
          /\ existsSync(uploadsDir, r.filename)
          /\ existsSync(uploadsDir, thumbnailFilenameFromOriginal(r.filename))
    /\ \E r \in getPhoto(photos, LegacyPhotos[2].id) :
          /\ r.filename = LegacyPhotos[2].filename
          /\ existsSync(uploadsDir, r.filename)

\* the routes behind requireAuth, and a step in which one of them answers
GateOps == PhotoOps \cup {"me"}
GateStep == res' # res /\ res'.op \in GateOps

\* C21: a request to a route behind requireAuth whose token does not verify (none
\* sent, text that is no token, a changed signature, an expired token) is answered
\* 401 with one and the same body, and leaves the users table, the realm cache, the
\* provisioned realms, the photos table and the uploads directory as they were.
C21_RefusedUniformlyNoEffect ==
    [][ (GateStep /\ verifyToken(extractToken(res'.req), now) = {}) =>
          /\ res'.status = 401
          /\ res'.code = ""
          /\ res'.token = <<>>
          /\ res'.user = {}
          /\ res'.realm = {}
          /\ UNCHANGED <<users, storesByUserId, provisioned, tokens>>
          /\ UNCHANGED <<photos, uploadsDir, upload, recon, fresh>> ]_vars

\* a request with a token the client was handed, sent after its expiry, is refused
C21_Witness ==
    /\ res.op \in GateOps
    /\ res.status = 401
    /\ res.sent \in { t.token : t \in tokens }
    /\ res.req.authorization = BEARER \o res.sent
    /\ verifyToken(res.sent, now) = {}
    /\ storesByUserId # {}

\* what an Authorization header that starts with "Bearer " carries
HeaderToken(req) ==
    Trim(SubSeq(req.authorization, Len(BEARER) + 1, Len(req.authorization)))

\* C30: the token a route behind requireAuth checks is the one of the Authorization
\* header whenever that header starts with "Bearer ", whatever the query string
\* holds, and the auth query parameter only when there is no such header; the
\* request is let through exactly when that token verifies.
C30_HeaderBeforeQuery ==
    [][ GateStep =>
          LET checked == IF StartsWith(res'.req.authorization, BEARER)
                         THEN HeaderToken(res'.req)
                         ELSE Trim(res'.req.auth)
          IN  /\ res'.sent = checked
              /\ res'.status = 401 <=> verifyToken(checked, now) = {} ]_vars

\* refused: a Bearer header whose token does not verify, next to a query token
\* that would have
C30_Witness ==
    /\ res.op \in GateOps
    /\ res.status = 401
    /\ StartsWith(res.req.authorization, BEARER)
    /\ verifyToken(HeaderToken(res.req), now) = {}
    /\ verifyToken(Trim(res.req.auth), now) # {}

\* an entry of the legacy list with id, username, salt and hash, and the row the
\* import makes of it
WellFormedEntry(e) ==
    e.id # <<>> /\ e.username # <<>> /\ e.passwordSalt # <<>> /\ e.passwordHash # <<>>

RowOfEntry(e, t) ==
    UserRow(normalizeUserId(e.id), Trim(e.username), e.passwordSalt, e.passwordHash,
            IF e.createdAt = 0 THEN t ELSE e.createdAt)

\* module load, and the entries of the file when it parses to a list
BootStep == phase = "boot" /\ phase' = "loaded"
ParsedEntries == IF legacyFile.kind = "array" THEN legacyFile.entries ELSE <<>>

ListenStep == phase = "loaded" /\ phase' = "serving"
ProvisioningStep ==
    \/ ListenStep
    \/ LoginStep /\ res'.status # 400
    \/ res' # res /\ res'.op = "me" /\ verifyToken(res'.sent, now) # {}

\* the user ensureDefaultUser creates
IsDefaultUser(row) ==
    /\ row.id = normalizeUserId(DEFAULT_USER_ID)
    /\ row.username = DEFAULT_USER_ID
    /\ PasswordOf(row, DEFAULT_USER_PASSWORD)

\* C22: a step that calls ensureDefaultUser on an empty users table leaves exactly
\* one user, made of the default id and password; on a table that holds a user
\* (an imported one or the default one) it leaves the table as it is; a second
\* call changes nothing; and the table the lookup of a login or of an identity
\* check reads holds at least one user.
C22_DefaultUserOnceOnEmptyStore ==
    [][ ProvisioningStep =>
          /\ IF users = <<>>
             THEN Len(users') = 1 /\ IsDefaultUser(users'[1])
             ELSE users' = users
          /\ \A salt \in SaltValues : ensureDefaultUser(users', now, salt) = users'
          /\ Len(users') >= 1 ]_vars

\* a login has been answered from a store that the legacy import filled: it holds
\* the imported user and no default user
C22_Witness ==
    /\ phase = "serving"
    /\ res.op = "login"
    /\ res.status = 200
    /\ legacyFile.kind = "array"
    /\ Len(users) >= 1
    /\ \A i \in 1..Len(users) : ~IsDefaultUser(users[i])

\* C24: the row of a file of an upload is inserted after the thumbnail step of
\* that file: while the thumbnail of the file in hand is awaited the photos table,
\* which a list or a delete served meanwhile reads, holds no row for it, and no
\* listing answered meanwhile shows it.
C24_RowAfterThumbnail ==
    upload.stage = "thumb" =>
        /\ RowsWithId(photos, upload.cur.id) = {}
        /\ out.op = "list" => upload.cur.id \notin Range(DescriptorIds(out.photos))

\* C25: a delete removes the row only after the asset and the thumbnail: after
\* every step of a delete, one cut short by the death of the process at a point
\* between its effects included, a row the delete found whose asset file is still
\* there is still in the table; and a delete that was cut short has removed no row.
C25_RowDeletedLast ==
    [][ (out'.op = "delete" /\ (out' # out \/ phase' = "boot")) =>
          /\ \A r \in getPhoto(photos, out'.id) :
                existsSync(uploadsDir', r.filename) => getPhoto(photos', out'.id) # {}
          /\ phase' = "boot" =>
                /\ photos' = photos
                /\ \A r \in getPhoto(photos, out'.id) : ~existsSync(uploadsDir', r.filename) ]_vars

\* a delete was cut short after the asset was unlinked: the row is left, with its
\* thumbnail, and the process is down
C25_Witness ==
    /\ out.op = "delete"
    /\ out.status = 0
    /\ phase = "boot"
    /\ \E r \in getPhoto(photos, out.id) :
          /\ ~existsSync(uploadsDir, r.filename)
          /\ existsSync(uploadsDir, thumbnailFilenameFromOriginal(r.filename))

\* C26: in every state, the states between the awaits of a media migration in
\* flight while requests are served included, the filename of every row of the
\* photos table names exactly one file of the uploads directory.
C26_RowNamesOneFile ==
    \A i \in 1..Len(photos) :
        Cardinality({ f \in uploadsDir : f.name = photos[i].filename }) = 1

\* the files that derive from a photo an earlier version left: its asset, the
\* converted asset and the thumbnail (which both assets share)
DerivedFiles(p) ==
    { p.filename, replaceFileExtension(p.filename, STR_JPG),
      thumbnailFilenameFromOriginal(p.filename) }

\* C27: deletes served between the awaits of the HEIC sweep do not corrupt the
\* realm: once the media migration is over and no request is in flight, a photo
\* that has no row has no asset, converted asset or thumbnail left in the uploads
\* directory.
C27_DeleteDuringSweep ==
    recon.stage = "done" =>
        \A i \in 1..Len(LegacyPhotos) :
            getPhoto(photos, LegacyPhotos[i].id) = {} =>
                \A name \in DerivedFiles(LegacyPhotos[i]) : ~existsSync(uploadsDir, name)

\* C28: failures are isolated in the media migration of a start. After the
\* app.listen callback every known user whose own realm could be provisioned has
\* a realm and a migration that was started in a process that goes on; and when
\* the migration of a realm ends, the failures on other rows have kept no row
\* with a readable file from being converted and from getting its thumbnail.
C28_FailureIsolation ==
    [][ /\ (phase = "loaded" /\ phase' # "loaded") =>
              \A i \in 1..Len(users') :
                  \/ /\ users'[i].id \in Range(provisioned')
                     /\ users'[i].id \notin storesByUserId'
                  \/ /\ users'[i].id \in storesByUserId'
                     /\ phase' = "serving"
        /\ (recon'.stage = "done" /\ recon.stage # "done") =>
              \A i \in 1..Len(photos') :
                  sharpReads(uploadsDir', photos'[i].filename) =>
                      /\ listPhotosForConversion(<<photos'[i]>>) = <<>>
                      /\ existsSync(uploadsDir',
                                    thumbnailFilenameFromOriginal(photos'[i].filename)) ]_vars

\* the row an earlier version stored under the id of row r
LegacyRowOf(r) == CHOOSE p \in Range(LegacyPhotos) : p.id = r.id

ThumbnailNameOf(filename) ==
    STR_THUMB
        \o (IF LastDot(filename) > 1 THEN SubSeq(filename, 1, LastDot(filename) - 1)
            ELSE filename)
        \o STR_WEBP

\* descriptor d of a row stored under filename, built when the uploads directory
\* is fl: thumbnailUrl names the thumbnail exactly when that file is in fl, and is
\* the asset url otherwise
ComputedThumbnail(d, filename, fl) ==
    LET thumbUrl == withAuthQuery(STR_UPLOADS \o ThumbnailNameOf(filename), AuthToken)
    IN  /\ d.url = withAuthQuery(STR_UPLOADS \o filename, AuthToken)
        /\ d.url # thumbUrl
        /\ existsSync(fl, ThumbnailNameOf(filename)) => d.thumbnailUrl = thumbUrl
        /\ ~existsSync(fl, ThumbnailNameOf(filename)) => d.thumbnailUrl = d.url

\* C31: thumbnail presence is computed when a descriptor is built: every
\* descriptor of a listing, and every descriptor an upload pushes, has a
\* thumbnailUrl that names thumb-<basename>.webp exactly when that file is in the
\* uploads directory at that moment, and that is the asset url otherwise; the
\* name is a function of the stored filename alone.
C31_ThumbnailComputed ==
    [][ /\ (out'.op = "list" /\ out' # out) =>
              /\ Len(out'.photos) = Len(photos)
              /\ \A k \in 1..Len(out'.photos) :
                    \E r \in getPhoto(photos, out'.photos[k].id) :
                        ComputedThumbnail(out'.photos[k], r.filename, uploadsDir)
        /\ (upload.stage = "thumb" /\ (upload' # upload)) =>
              LET pushed == IF upload'.stage = "idle" THEN out'.photos ELSE upload'.created
              IN  /\ Len(pushed) = Len(upload.created) + 1
                  /\ ComputedThumbnail(pushed[Len(pushed)], upload.cur.filename,
                                       uploadsDir') ]_vars

\* a listing answered while a thumbnail is awaited: one descriptor names its
\* thumbnail, another falls back to its asset
C31_Witness ==
    /\ out.op = "list"
    /\ upload.stage = "thumb"
    /\ \E j, k \in 1..Len(out.photos) :
          /\ out.photos[j].thumbnailUrl = out.photos[j].url
          /\ out.photos[k].thumbnailUrl # out.photos[k].url
          /\ existsSync(uploadsDir, ThumbnailNameOf(LegacyRowOf(out.photos[k]).filename))

\* a read of the photo with this id has found its thumbnail missing: the listing
\* last answered shows the photo with the asset url as thumbnailUrl, or the fetch
\* of its thumbnail was last answered with 404; the asset is a file sharp can read
ReadFoundMissing(id) ==
    /\ phase = "serving"
    /\ \E r \in getPhoto(photos, id) :
          /\ sharpReads(uploadsDir, r.filename)
          /\ ~existsSync(uploadsDir, thumbnailFilenameFromOriginal(r.filename))
          /\ \/ /\ out.op = "list"
                /\ \E k \in 1..Len(out.photos) :
                      /\ out.photos[k].id = id
                      /\ out.photos[k].thumbnailUrl = out.photos[k].url
             \/ /\ out.op = "asset"
                /\ out.status = 404
                /\ out.file = thumbnailFilenameFromOriginal(r.filename)

\* the photo has its thumbnail, or is gone
ThumbnailBack(id) ==
    \A r \in getPhoto(photos, id) :
        existsSync(uploadsDir, thumbnailFilenameFromOriginal(r.filename))

\* C32: a thumbnail found missing is regenerated on demand: when a listing or a
\* fetch of the thumbnail has found the thumbnail of a photo missing while its
\* asset is there, the thumbnail file is there again later on, the process
\* running on.
C32_RegeneratedOnDemand ==
    \A i \in 1..Len(LegacyPhotos) :
        ReadFoundMissing(LegacyPhotos[i].id) ~> ThumbnailBack(LegacyPhotos[i].id)

\* C33: in every state of the credential store every user id is non-empty and
\* made of the characters a-z, 0-9, ".", "_" and "-" only, no two users have the
\* same id, and no step changes or removes the id of a user that is there.
C33_UserIdsWellFormed ==
    /\ [] (\A i \in 1..Len(users) :
              /\ users[i].id # <<>>
              /\ Range(users[i].id) \subseteq IdChars
              /\ \A j \in 1..Len(users) : i # j => users[i].id # users[j].id)
    /\ [][ /\ Len(users') >= Len(users)
           /\ \A i \in 1..Len(users) : users'[i].id = users[i].id ]_vars

\* the ids user and a came out of the ids "!!" and "--A--" of users.json, and a
\* registration added the id admin next to them
C33_Witness ==
    /\ Len(users) = 3
    /\ users[1].id = <<"u","s","e","r">>
    /\ users[2].id = <<"a">>
    /\ users[3].id = <<"a","d","m","i","n">>
    /\ res.op = "register"
    /\ res.status = 201

\* C34: in every state of the credential store no two users have usernames that
\* are equal up to letter case.
C34_UsernamesDistinctNoCase ==
    \A i, j \in 1..Len(users) :
        i # j => ToLowerCase(users[i].username) # ToLowerCase(users[j].username)

\* dir is a direct child of the users root
ChildOfUsersDir(dir) ==
    /\ Len(dir) = Len(usersDir) + 1
    /\ SubSeq(dir, 1, Len(usersDir)) = usersDir

\* C35: the realms provisioned for the users of the credential store are
\* physically apart: the directory of every user is a direct child of the users
\* root, so it is neither that root nor the data root, and two users never have
\* the same directory, uploads directory or database file.
C35_RealmsApart ==
    \A i \in 1..Len(users) :
        users[i].id \in storesByUserId =>
            /\ ChildOfUsersDir(StoreOf(users[i].id).userDir)
            /\ \A j \in 1..Len(users) :
                  (i # j /\ users[j].id \in storesByUserId) =>
                      /\ StoreOf(users[i].id).userDir # StoreOf(users[j].id).userDir
                      /\ StoreOf(users[i].id).uploadsDir # StoreOf(users[j].id).uploadsDir
                      /\ StoreOf(users[i].id).dbPath # StoreOf(users[j].id).dbPath

\* C36: in every state every key of the realm cache is the id of a user of the
\* credential store: registrations, logins and requests that carry a token
\* provision no realm for an id that no user has.
C36_RealmsOfUsersOnly ==
    \A id \in storesByUserId : \E i \in 1..Len(users) : users[i].id = id

\* the files a photo of an upload can have left in the uploads directory: the asset
\* as multer stored it, the asset as converted, and the thumbnail
UploadedFilesOf(file) ==
    { file.filename, replaceFileExtension(file.filename, STR_JPG),
      thumbnailFilenameFromOriginal(file.filename) }

\* C37: when an upload has answered 201 and a photo of it has no row any more (it
\* was deleted while the upload was still ingesting it), the uploads directory
\* holds neither the asset nor the thumbnail of that photo.
C37_NoResidueAfterRace ==
    (upload.stage = "idle" /\ out.op = "upload" /\ out.status = 201) =>
        \A k \in 1..Len(out.batch) :
            getPhoto(photos, out.batch[k].id) = {} =>
                \A name \in UploadedFilesOf(out.batch[k]) : ~existsSync(uploadsDir, name)

\* C38: in every state of the usePhotoLibrary hook in which authToken is null and
\* no request is in flight, photos is empty and authUser is null, also when a
\* response to a request sent before the logout arrived after it.
C38_SignedOutHoldsNothing ==
    (library.authToken = <<>> /\ BagCardinality(library.inflight) = 0) =>
        library.photos = <<>> /\ library.authUser = <<>>

\* C39: presetIndex is an index of SIZE_PRESETS in every state, and a call of
\* onPinch that changes presetIndex changes it by one, had an accumulated scale
\* above 0.3 in absolute value, and leaves the accumulator at 0.
C39_PinchSteps ==
    /\ [](/\ pinchGrid.presetIndex \in 0..3
          /\ SIZE_PRESETS[pinchGrid.presetIndex + 1] \in {2, 4, 6, 8})
    /\ [][ pinchGrid'.call = "onPinch" =>
             LET scale == (IF pinchGrid'.first THEN 0 ELSE pinchGrid.lastScale)
                              + pinchGrid'.delta
                 step == pinchGrid'.presetIndex - pinchGrid.presetIndex
             IN  /\ step \in {-1, 0, 1}
                 /\ step # 0 => /\ (scale > PinchStep \/ scale < -PinchStep)
                                /\ pinchGrid'.lastScale = 0 ]_vars

\* a pinch over several touch moves has stepped to the next larger preset
C39_Witness ==
    /\ pinchGrid.call = "onPinch"
    /\ ~pinchGrid.first
    /\ pinchGrid.delta <= PinchStep
    /\ pinchGrid.presetIndex = pinchGrid.was - 1
    /\ pinchGrid.lastScale = 0

====
